---- MODULE Spec2Model ----
(***************************************************************************)
(* Static timing analysis of an SDF netlist (Uriopass/stars).              *)
(*                                                                         *)
(* The model follows src/src/graph.rs (SDFGraph::new) and                  *)
(* src/src/analysis.rs (SDFGraphAnalyzed::analyze, extract_path).          *)
(*                                                                         *)
(* A pin name is the sequence of its path components: unique_name joins    *)
(* the components with '/', unique_name_port appends the port name to the  *)
(* cell name, so "U1/CLK" is <<"U1", "CLK">> and the top-level net "clk"   *)
(* is <<"clk">>.  A node (PinTrans) is the pair <<pin, transition>>.       *)
(* Delays are f32 in the source; they are small naturals here, and NaN is  *)
(* a value of its own with the arithmetic f32 gives it.                    *)
(***************************************************************************)
EXTENDS Integers, Sequences, FiniteSets, TLC

VARIABLES
    graph,               \* SDFGraph.graph: node -> sequence of edges
    reverse_graph,       \* SDFGraph.reverse_graph
    instance_celltype,   \* instance -> cell type
    instance_ins,        \* instance -> set of input pins
    instance_outs,       \* instance -> set of output pins
    instance_fanout,     \* instance -> set of pins fed by the instance
    regs_d,              \* D nodes of the detected flip-flops, in detection order
    regs_q,              \* Q nodes of the detected flip-flops, in detection order
    inputs,              \* SDFGraph.inputs
    outputs,             \* SDFGraph.outputs
    max_delay,           \* SDFGraphAnalyzed.max_delay
    max_delay_backwards, \* SDFGraphAnalyzed.max_delay_backwards
    output,              \* the endpoint handed to extract_path
    path,                \* the list extract_path returned
    consumed,            \* the delay items of the SDF read so far
    nitems,              \* how many delay items were read
    phase,               \* where the run stands
    error,               \* why the run stopped, "" while it has not
    outputs_with_delay,  \* main: the register endpoints with their arrivals, ranked
    reported,            \* main: the endpoints the report loop went through
    contents,            \* subckt.rs: the text SubcktData::new reads, as lines of words
    values,              \* subckt.rs: the values bound to the IO pins
    subckt_instance,     \* subckt.rs: the instance name
    subckt,              \* subckt.rs: the Subckt that Subckt::new built
    spice_append,        \* subckt.rs: the lines instanciate wrote
    w,                   \* spice.rs: the requested width, in hundredths of a micron
    fet_size,            \* spice.rs: what pfet_size or nfet_size returned
    sdf,                 \* reporters: the delay items of the SDF the graph was built from
    instances,           \* reporters: the cell traversals of the compacted path
    pin_vals,            \* spice.rs: per traversal, the side-input assignment selected
    warned,              \* spice.rs: the cell types a warning was printed for
    files,               \* reporters: the files written
    successors,          \* util.rs: the successors function, node -> list of nodes
    given_roots,         \* util.rs: the roots topological_sort was called with
    roots,               \* util.rs: the roots not visited yet (unmarked in visit)
    marked,              \* util.rs: the nodes whose visit is complete
    temp,                \* util.rs: the nodes entered since the last root was taken
    sorted,              \* util.rs: the order built so far
    topo_result          \* util.rs: what topological_sort returned, <<>> before

\* main.rs
mainVars == <<outputs_with_delay, reported>>

\* subckt.rs
subcktVars == <<contents, values, subckt_instance, subckt, spice_append>>

\* spice.rs
spiceVars == <<w, fet_size>>

\* html.rs and spice.rs: the reporters
reportVars == <<sdf, instances, pin_vals, warned, files>>

\* util.rs
topoVars == <<successors, given_roots, roots, marked, temp, sorted, topo_result>>

vars == <<graph, reverse_graph, instance_celltype, instance_ins, instance_outs,
          instance_fanout, regs_d, regs_q, inputs, outputs, max_delay,
          max_delay_backwards, output, path, consumed, nitems, phase, error,
          mainVars, subcktVars, spiceVars, reportVars, topoVars>>

(***************************************************************************)
(* Bounds                                                                  *)
(***************************************************************************)
\* number of delay items in the SDF
MaxItems == 3
\* depth of the call stack; every acyclic recursion of the model is shallower
StackLimit == 8
\* number of entries extract_path may push before memory runs out
PathLimit == 8

(***************************************************************************)
(* types.rs                                                                *)
(***************************************************************************)
Rise == "rise"
Fall == "fall"
Transition == {Rise, Fall}

\* the Ord of Transition: variants compare in declaration order
TransRank(t) == IF t = Rise THEN 0 ELSE 1

\* the pins the SDF items below can name, in the order of String's Ord
\* (byte-wise: upper case before lower case, a prefix before its extensions)
PinOrder ==
    << <<"U1", "CLK">>, <<"U1", "D">>, <<"U1", "Q">>,
       <<"U2", "A">>, <<"U2", "B">>, <<"U2", "X">>,
       <<"a">>, <<"clk">>, <<"clock">>, <<"reset">>, <<"resetn">>, <<"rst">> >>

PinRank(p) == CHOOSE i \in 1..Len(PinOrder) : PinOrder[i] = p

\* the Ord of PinTrans = (String, Transition): lexicographic
NodeLess(m, n) ==
    \/ PinRank(m[1]) < PinRank(n[1])
    \/ m[1] = n[1] /\ TransRank(m[2]) < TransRank(n[2])

\* the keys of a BTreeMap or the elements of a BTreeSet, in iteration order
RECURSIVE SortedSeq(_)
SortedSeq(S) ==
    IF S = {} THEN <<>>
    ELSE LET m == CHOOSE x \in S : \A y \in S \ {x} : NodeLess(x, y)
         IN  <<m>> \o SortedSeq(S \ {m})

Keys(map) == SortedSeq(DOMAIN map)

(***************************************************************************)
(* f32 as the analysis uses it                                             *)
(***************************************************************************)
\* f32::NAN; every other value of the model is a natural number
NaN == -1

is_nan(x) == x = NaN

\* f32 addition that forgets the edge delay
FAdd_NoDelay(x, d) == IF is_nan(x) \/ is_nan(d) THEN NaN ELSE x

\* f32 addition: NaN absorbs
FAdd(x, d) == IF is_nan(x) \/ is_nan(d) THEN NaN ELSE x + d

\* f32::max replaced by f32::min
FMax_Min(x, y) ==
    IF is_nan(x) THEN y
    ELSE IF is_nan(y) THEN x
    ELSE IF x <= y THEN x ELSE y

\* f32::max replaced by "the later operand wins"
FMax_Last(x, y) == IF is_nan(y) THEN x ELSE y

\* the first number seen is kept
FMax_First(x, y) == IF is_nan(x) THEN y ELSE x

\* f32::max: a NaN operand is ignored
FMax(x, y) ==
    IF is_nan(x) THEN y
    ELSE IF is_nan(y) THEN x
    ELSE IF x >= y THEN x ELSE y

\* f32 != where == was meant
FEq_NotEqual(x, y) == ~is_nan(x) /\ ~is_nan(y) /\ x # y

\* f32 ==: NaN equals nothing
FEq(x, y) == ~is_nan(x) /\ ~is_nan(y) /\ x = y

(***************************************************************************)
(* The SDF input (sdfparse): delay items of cells                          *)
(***************************************************************************)
\* the embedded unateness.json: celltype_short -> input pin -> TriUnate
UnatenessData ==
    [buf   |-> [A |-> "Positive"],
     inv   |-> [A |-> "Negative"],
     xor2  |-> [A |-> "Non"],
     dfxtp |-> [CLK |-> "Non"]]

\* celltype_short: strip the library prefix, cut at the last '_'
celltype_short(celltype) ==
    CASE celltype = "sky130_fd_sc_hd__buf_1"   -> "buf"
      [] celltype = "sky130_fd_sc_hd__inv_1"   -> "inv"
      [] celltype = "sky130_fd_sc_hd__xor2_1"  -> "xor2"
      [] celltype = "sky130_fd_sc_hd__dfxtp_1" -> "dfxtp"
      [] celltype = "sky130_fd_sc_hd__ha_1"    -> "ha"

\* SDFValue::Single(v); extract_delay returns v
extract_delay(value) == value

\* parse_delays: one value serves both transitions, two are (up, down)
parse_delays_ok(value) == Len(value) \in {1, 2}

parse_delays(value) ==
    IF Len(value) = 1
    THEN <<extract_delay(value[1]), extract_delay(value[1])>>
    ELSE <<extract_delay(value[1]), extract_delay(value[2])>>

\* SDFDelay::Interconnect in the top cell (instance None): a and b are paths
Inter(a, b, delay) ==
    [kind |-> "Interconnect", instance |-> <<>>, celltype |-> "top",
     a |-> a, b |-> b, a_port |-> "", b_port |-> "",
     delay |-> delay, cond |-> "None", edge_type |-> "None"]

\* SDFDelay::IOPath(cond, io) in the cell of an instance: io.a.port and io.b
\* are port names
IOP(instance, celltype, a_port, b_port, delay, cond, edge_type) ==
    [kind |-> "IOPath", instance |-> instance, celltype |-> celltype,
     a |-> <<>>, b |-> <<>>, a_port |-> a_port, b_port |-> b_port,
     delay |-> delay, cond |-> cond, edge_type |-> edge_type]

\* the delay items an SDF is made of
GoodItems ==
    { Inter(<<"a">>, <<"U2", "A">>, d)       : d \in {<<0>>, <<1, 2>>} } \cup
    { Inter(<<"U1", "Q">>, <<"U2", "A">>, d) : d \in {<<0>>, <<1, 2>>} } \cup
    { Inter(<<"U2", "X">>, <<"U1", "D">>, <<1>>),
      Inter(<<"a">>, <<"U1", "CLK">>, <<0>>),
      Inter(<<"U2", "X">>, <<"U2", "A">>, <<0>>),
      Inter(<<"U1", "Q">>, <<"U1", "CLK">>, <<0>>),
      Inter(<<"clk">>, <<"U1", "CLK">>, <<0>>),
      Inter(<<"clock">>, <<"U1", "CLK">>, <<0>>),
      Inter(<<"rst">>, <<"U2", "A">>, <<0>>),
      Inter(<<"reset">>, <<"U2", "A">>, <<0>>),
      Inter(<<"resetn">>, <<"U2", "A">>, <<0>>) } \cup
    { IOP(<<"U1">>, "sky130_fd_sc_hd__dfxtp_1", "CLK", "Q", d, "None", "None")
        : d \in {<<0>>, <<1, 2>>} } \cup
    { IOP(<<"U2">>, ct, "A", "X", <<1, 2>>, "None", "None")
        : ct \in {"sky130_fd_sc_hd__buf_1", "sky130_fd_sc_hd__inv_1",
                  "sky130_fd_sc_hd__xor2_1"} }

\* items SDFGraph::new refuses
BadItems ==
    { Inter(<<"a">>, <<"U2", "A">>, <<>>),
      IOP(<<"U2">>, "sky130_fd_sc_hd__buf_1", "A", "X", <<1, 2, 3>>, "None", "None"),
      IOP(<<"U2">>, "sky130_fd_sc_hd__buf_1", "A", "X", <<1>>, "Cond", "None"),
      IOP(<<"U1">>, "sky130_fd_sc_hd__dfxtp_1", "CLK", "Q", <<1>>, "None", "Posedge"),
      IOP(<<"U2">>, "sky130_fd_sc_hd__ha_1", "A", "X", <<1>>, "None", "None"),
      IOP(<<"U2">>, "sky130_fd_sc_hd__buf_1", "B", "X", <<1>>, "None", "None") }

Items == GoodItems \cup BadItems

(***************************************************************************)
(* graph.rs: SDFGraph::new                                                 *)
(***************************************************************************)
\* unique_name: the path components joined by '/'
unique_name(p) == p

\* unique_name_port: cell name, '/', port name
unique_name_port(cell_name, port_name) == Append(cell_name, port_name)

\* the key is not inserted
Ensure_Skip(map, k) == map

\* map.entry(k).or_insert_with(Vec::new)
Ensure(map, k) == IF k \in DOMAIN map THEN map ELSE map @@ (k :> <<>>)

\* map.entry(k).or_insert_with(Vec::new).push(SDFEdge { dst, delay })
Push(map, k, dst, delay) ==
    LET e == [dst |-> dst, delay |-> delay]
    IN  IF k \in DOMAIN map THEN [map EXCEPT ![k] = Append(@, e)]
        ELSE map @@ (k :> <<e>>)

\* map.entry(k).or_insert_with(PinSet::new).insert(p)
SetInsert(map, k, p) ==
    IF k \in DOMAIN map THEN [map EXCEPT ![k] = @ \cup {p}]
    ELSE map @@ (k :> {p})

\* map.insert(k, v)
MapInsert(map, k, v) ==
    IF k \in DOMAIN map THEN [map EXCEPT ![k] = v] ELSE map @@ (k :> v)

\* a_name.rsplit_once('/').0: the instance of a pin, if it has one
HasInstance(pin) == Len(pin) >= 2
InstanceOf(pin) == SubSeq(pin, 1, Len(pin) - 1)

\* the forward edges of an Interconnect with the rise delay on both
InterconnectEdges_UpOnly(a_name, b_name, up, down) ==
    << <<<<a_name, Rise>>, <<b_name, Rise>>, up>>,
       <<<<a_name, Fall>>, <<b_name, Fall>>, up>> >>

\* the forward edges an Interconnect pushes, as <<source, destination, delay>>
InterconnectEdges(a_name, b_name, up, down) ==
    << <<<<a_name, Rise>>, <<b_name, Rise>>, up>>,
       <<<<a_name, Fall>>, <<b_name, Fall>>, down>> >>

\* the forward edges with the Negative arm pushing what the Positive arm pushes
IOPathEdges_NegativeAsPositive(unate, a_name, b_name, up, down) ==
    CASE unate \in {"Positive", "Negative"} ->
           << <<<<a_name, Rise>>, <<b_name, Rise>>, up>>,
              <<<<a_name, Fall>>, <<b_name, Fall>>, down>> >>
      [] unate = "Non" ->
           << <<<<a_name, Rise>>, <<b_name, Rise>>, up>>,
              <<<<a_name, Fall>>, <<b_name, Fall>>, down>>,
              <<<<a_name, Rise>>, <<b_name, Fall>>, down>>,
              <<<<a_name, Fall>>, <<b_name, Rise>>, up>> >>

\* the forward edges an IOPath pushes for each TriUnate, in push order
IOPathEdges(unate, a_name, b_name, up, down) ==
    CASE unate = "Positive" ->
           << <<<<a_name, Rise>>, <<b_name, Rise>>, up>>,
              <<<<a_name, Fall>>, <<b_name, Fall>>, down>> >>
      [] unate = "Negative" ->
           << <<<<a_name, Rise>>, <<b_name, Fall>>, down>>,
              <<<<a_name, Fall>>, <<b_name, Rise>>, up>> >>
      [] unate = "Non" ->
           << <<<<a_name, Rise>>, <<b_name, Rise>>, up>>,
              <<<<a_name, Fall>>, <<b_name, Fall>>, down>>,
              <<<<a_name, Rise>>, <<b_name, Fall>>, down>>,
              <<<<a_name, Fall>>, <<b_name, Rise>>, up>> >>

\* the reverse edges with the two delays of the Negative arm exchanged
IOPathReverseEdges_Swapped(unate, a_name, b_name, up, down) ==
    CASE unate = "Positive" ->
           << <<<<b_name, Rise>>, <<a_name, Rise>>, up>>,
              <<<<b_name, Fall>>, <<a_name, Fall>>, down>> >>
      [] unate = "Negative" ->
           << <<<<b_name, Rise>>, <<a_name, Fall>>, down>>,
              <<<<b_name, Fall>>, <<a_name, Rise>>, up>> >>
      [] unate = "Non" ->
           << <<<<b_name, Rise>>, <<a_name, Rise>>, up>>,
              <<<<b_name, Fall>>, <<a_name, Fall>>, down>>,
              <<<<b_name, Rise>>, <<a_name, Fall>>, up>>,
              <<<<b_name, Fall>>, <<a_name, Rise>>, down>> >>

\* the reverse edges an IOPath pushes for each TriUnate, in push order
IOPathReverseEdges(unate, a_name, b_name, up, down) ==
    CASE unate = "Positive" ->
           << <<<<b_name, Rise>>, <<a_name, Rise>>, up>>,
              <<<<b_name, Fall>>, <<a_name, Fall>>, down>> >>
      [] unate = "Negative" ->
           << <<<<b_name, Rise>>, <<a_name, Fall>>, up>>,
              <<<<b_name, Fall>>, <<a_name, Rise>>, down>> >>
      [] unate = "Non" ->
           << <<<<b_name, Rise>>, <<a_name, Rise>>, up>>,
              <<<<b_name, Fall>>, <<a_name, Fall>>, down>>,
              <<<<b_name, Rise>>, <<a_name, Fall>>, up>>,
              <<<<b_name, Fall>>, <<a_name, Rise>>, down>> >>

\* the reverse edges an Interconnect pushes
InterconnectReverseEdges(a_name, b_name, up, down) ==
    << <<<<b_name, Rise>>, <<a_name, Rise>>, up>>,
       <<<<b_name, Fall>>, <<a_name, Fall>>, down>> >>

\* push a list of edges, one after the other
RECURSIVE PushAll(_, _)
PushAll(map, es) ==
    IF es = <<>> THEN map
    ELSE PushAll(Push(map, es[1][1], es[1][2], es[1][3]), Tail(es))

\* make every node of a list a key
RECURSIVE EnsureAll(_, _)
EnsureAll(map, ks) ==
    IF ks = <<>> THEN map ELSE EnsureAll(Ensure(map, ks[1]), Tail(ks))

BothTransitions(pin) == << <<pin, Rise>>, <<pin, Fall>> >>

\* main has not ranked anything
MainIdle == outputs_with_delay = <<>> /\ reported = <<>>

\* no subcircuit text was read
SubcktIdle ==
    /\ contents = <<>>
    /\ values = <<>>
    /\ subckt_instance = ""
    /\ subckt = <<>>
    /\ spice_append = <<>>

\* no transistor was sized
SpiceIdle == w = 0 /\ fet_size = <<>>

\* no report was asked for
ReportIdle ==
    /\ sdf = <<>>
    /\ instances = <<>>
    /\ pin_vals = <<>>
    /\ warned = <<>>
    /\ files = {}

\* nothing was sorted
TopoIdle ==
    /\ successors = <<>>
    /\ given_roots = {}
    /\ roots = {}
    /\ marked = {}
    /\ temp = {}
    /\ sorted = <<>>
    /\ topo_result = <<>>

\* the locals of SDFGraph::new before the first cell
GraphIdle ==
    /\ graph = <<>>
    /\ reverse_graph = <<>>
    /\ instance_celltype = <<>>
    /\ instance_ins = <<>>
    /\ instance_outs = <<>>
    /\ instance_fanout = <<>>
    /\ regs_d = <<>>
    /\ regs_q = <<>>
    /\ inputs = <<>>
    /\ outputs = <<>>
    /\ max_delay = <<>>
    /\ max_delay_backwards = <<>>
    /\ output = <<>>
    /\ path = <<>>
    /\ consumed = {}
    /\ nitems = 0
    /\ phase = "new"
    /\ error = ""

Init ==
    /\ GraphIdle
    /\ MainIdle
    /\ SubcktIdle
    /\ SpiceIdle
    /\ ReportIdle
    /\ TopoIdle

\* the builder panics: no SDFGraph is returned
Panic(it, why) ==
    /\ phase' = "panicked"
    /\ error' = why
    /\ consumed' = consumed \cup {it}
    /\ nitems' = nitems + 1
    /\ UNCHANGED <<mainVars, subcktVars, spiceVars, reportVars, topoVars>>
    /\ UNCHANGED <<graph, reverse_graph, instance_celltype, instance_ins,
                   instance_outs, instance_fanout, regs_d, regs_q, inputs,
                   outputs, max_delay, max_delay_backwards, output, path>>

\* one delay item of the cell loop: SDFDelay::Interconnect
Interconnect(it) ==
    /\ phase = "new"
    /\ nitems < MaxItems
    /\ it.kind = "Interconnect"
    /\ IF ~parse_delays_ok(it.delay)
       THEN Panic(it, "DelayLength")
       ELSE LET up     == parse_delays(it.delay)[1]
                down   == parse_delays(it.delay)[2]
                a_name == unique_name(it.a)
                b_name == unique_name(it.b)
            IN  /\ instance_celltype' =
                      MapInsert(instance_celltype, unique_name(it.instance), it.celltype)
                /\ instance_fanout' =
                      IF HasInstance(a_name)
                      THEN SetInsert(instance_fanout, InstanceOf(a_name), b_name)
                      ELSE instance_fanout
                /\ graph' =
                      EnsureAll(PushAll(graph, InterconnectEdges(a_name, b_name, up, down)),
                                BothTransitions(b_name))
                /\ reverse_graph' =
                      EnsureAll(PushAll(reverse_graph,
                                        InterconnectReverseEdges(a_name, b_name, up, down)),
                                BothTransitions(a_name) \o BothTransitions(b_name))
                /\ consumed' = consumed \cup {it}
                /\ nitems' = nitems + 1
                /\ UNCHANGED <<mainVars, subcktVars, spiceVars, reportVars, topoVars>>
                /\ UNCHANGED <<instance_ins, instance_outs, regs_d, regs_q, inputs,
                               outputs, max_delay, max_delay_backwards, output,
                               path, phase, error>>

\* the checks of an IOPath item without the one on the condition guard
IOPathRefusal_CondIgnored(it) ==
    LET short == celltype_short(it.celltype)
    IN  IF short \notin DOMAIN UnatenessData THEN "NoUnatenessCelltype"
        ELSE IF it.edge_type # "None" THEN "EdgeType"
        ELSE IF ~parse_delays_ok(it.delay) THEN "DelayLength"
        ELSE IF it.a_port \notin DOMAIN UnatenessData[short] THEN "NoUnatenessPin"
        ELSE ""

\* what stops an IOPath item, "" if nothing does; the checks in source order
IOPathRefusal(it) ==
    LET short == celltype_short(it.celltype)
    IN  IF short \notin DOMAIN UnatenessData THEN "NoUnatenessCelltype"
        ELSE IF it.cond # "None" THEN "IOPathCond"
        ELSE IF it.edge_type # "None" THEN "EdgeType"
        ELSE IF ~parse_delays_ok(it.delay) THEN "DelayLength"
        ELSE IF it.a_port \notin DOMAIN UnatenessData[short] THEN "NoUnatenessPin"
        ELSE ""

\* io.a.port.port_name == "CLK" && io.b.port_name == "Q"
IsFlipFlopArc(it) == it.a_port = "CLK" /\ it.b_port = "Q"

\* one delay item of the cell loop: SDFDelay::IOPath
IOPath(it) ==
    /\ phase = "new"
    /\ nitems < MaxItems
    /\ it.kind = "IOPath"
    /\ IF IOPathRefusal(it) # ""
       THEN Panic(it, IOPathRefusal(it))
       ELSE LET cell_name == unique_name(it.instance)
                unate     == UnatenessData[celltype_short(it.celltype)][it.a_port]
                up        == parse_delays(it.delay)[1]
                down      == parse_delays(it.delay)[2]
                a_name    == unique_name_port(cell_name, it.a_port)
                b_name    == unique_name_port(cell_name, it.b_port)
            IN  /\ instance_celltype' = MapInsert(instance_celltype, cell_name, it.celltype)
                /\ instance_ins' = SetInsert(instance_ins, cell_name, a_name)
                /\ instance_outs' = SetInsert(instance_outs, cell_name, b_name)
                /\ regs_d' = IF IsFlipFlopArc(it)
                             THEN regs_d \o BothTransitions(Append(cell_name, "D"))
                             ELSE regs_d
                /\ regs_q' = IF IsFlipFlopArc(it)
                             THEN regs_q \o BothTransitions(Append(cell_name, "Q"))
                             ELSE regs_q
                /\ graph' =
                      EnsureAll(PushAll(graph, IOPathEdges(unate, a_name, b_name, up, down)),
                                BothTransitions(b_name))
                /\ reverse_graph' =
                      EnsureAll(PushAll(reverse_graph,
                                        IOPathReverseEdges(unate, a_name, b_name, up, down)),
                                BothTransitions(a_name))
                /\ consumed' = consumed \cup {it}
                /\ nitems' = nitems + 1
                /\ UNCHANGED <<mainVars, subcktVars, spiceVars, reportVars, topoVars>>
                /\ UNCHANGED <<instance_fanout, inputs, outputs, max_delay,
                               max_delay_backwards, output, path, phase, error>>

\* the nodes of a map whose edge list is empty, in key order
RECURSIVE EmptyKeys(_, _)
EmptyKeys(map, ks) ==
    IF ks = <<>> THEN <<>>
    ELSE IF map[ks[1]] = <<>> THEN <<ks[1]>> \o EmptyKeys(map, Tail(ks))
    ELSE EmptyKeys(map, Tail(ks))

\* sort_unstable on a Vec of PinTrans (equal elements are indistinguishable)
RECURSIVE sort_unstable(_)
sort_unstable(v) ==
    IF v = <<>> THEN <<>>
    ELSE LET i == CHOOSE j \in 1..Len(v) :
                    \A k \in 1..Len(v) : ~NodeLess(v[k], v[j])
         IN  <<v[i]>> \o sort_unstable(SubSeq(v, 1, i - 1) \o SubSeq(v, i + 1, Len(v)))

\* the clock net with "clock" tried before "clk"
DetectClk_ClockFirst(g) ==
    IF <<<<"clock">>, Rise>> \in DOMAIN g THEN <<"clock">>
    ELSE IF <<<<"clk">>, Rise>> \in DOMAIN g THEN <<"clk">>
    ELSE <<>>

\* the clock net: "clk" if it is a node, else "clock" if it is, else None
DetectClk(g) ==
    IF <<<<"clk">>, Rise>> \in DOMAIN g THEN <<"clk">>
    ELSE IF <<<<"clock">>, Rise>> \in DOMAIN g THEN <<"clock">>
    ELSE <<>>

\* the reset net: the first of "rst", "reset", "resetn" that is a node
DetectRst(g) ==
    IF <<<<"rst">>, Rise>> \in DOMAIN g THEN <<"rst">>
    ELSE IF <<<<"reset">>, Rise>> \in DOMAIN g THEN <<"reset">>
    ELSE IF <<<<"resetn">>, Rise>> \in DOMAIN g THEN <<"resetn">>
    ELSE <<>>

\* inputs.retain(|v| Some(&v.0) != clk.as_ref() && Some(&v.0) != rst.as_ref())
RECURSIVE Retain(_, _, _)
Retain(v, clk, rst) ==
    IF v = <<>> THEN <<>>
    ELSE IF v[1][1] # clk /\ v[1][1] # rst
         THEN <<v[1]>> \o Retain(Tail(v), clk, rst)
         ELSE Retain(Tail(v), clk, rst)

\* endpoint discovery that extends Inputs with the D nodes
EndpointDiscovery_RegsDIntoInputs ==
    /\ phase = "new"
    /\ inputs' = Retain(sort_unstable(EmptyKeys(reverse_graph, Keys(reverse_graph))),
                        DetectClk(graph), DetectRst(graph)) \o regs_d
    /\ outputs' = sort_unstable(EmptyKeys(graph, Keys(graph))) \o regs_d
    /\ phase' = "built"
    /\ UNCHANGED <<mainVars, subcktVars, spiceVars, reportVars, topoVars>>
    /\ UNCHANGED <<graph, reverse_graph, instance_celltype, instance_ins,
                   instance_outs, instance_fanout, regs_d, regs_q, max_delay,
                   max_delay_backwards, output, path, consumed, nitems, error>>

\* endpoint discovery that sorts the lists after they were extended
EndpointDiscovery_SortAfterExtend ==
    /\ phase = "new"
    /\ inputs' = sort_unstable(Retain(EmptyKeys(reverse_graph, Keys(reverse_graph)),
                                      DetectClk(graph), DetectRst(graph)) \o regs_q)
    /\ outputs' = sort_unstable(EmptyKeys(graph, Keys(graph)) \o regs_d)
    /\ phase' = "built"
    /\ UNCHANGED <<mainVars, subcktVars, spiceVars, reportVars, topoVars>>
    /\ UNCHANGED <<graph, reverse_graph, instance_celltype, instance_ins,
                   instance_outs, instance_fanout, regs_d, regs_q, max_delay,
                   max_delay_backwards, output, path, consumed, nitems, error>>

\* endpoint discovery that leaves the Q nodes out of Inputs
EndpointDiscovery_NoRegsQ ==
    /\ phase = "new"
    /\ inputs' = Retain(sort_unstable(EmptyKeys(reverse_graph, Keys(reverse_graph))),
                        DetectClk(graph), DetectRst(graph))
    /\ outputs' = sort_unstable(EmptyKeys(graph, Keys(graph))) \o regs_d
    /\ phase' = "built"
    /\ UNCHANGED <<mainVars, subcktVars, spiceVars, reportVars, topoVars>>
    /\ UNCHANGED <<graph, reverse_graph, instance_celltype, instance_ins,
                   instance_outs, instance_fanout, regs_d, regs_q, max_delay,
                   max_delay_backwards, output, path, consumed, nitems, error>>

\* the end of SDFGraph::new: endpoint discovery, after the last cell
EndpointDiscovery ==
    /\ phase = "new"
    /\ inputs' = Retain(sort_unstable(EmptyKeys(reverse_graph, Keys(reverse_graph))),
                        DetectClk(graph), DetectRst(graph)) \o regs_q
    /\ outputs' = sort_unstable(EmptyKeys(graph, Keys(graph))) \o regs_d
    /\ phase' = "built"
    /\ UNCHANGED <<mainVars, subcktVars, spiceVars, reportVars, topoVars>>
    /\ UNCHANGED <<graph, reverse_graph, instance_celltype, instance_ins,
                   instance_outs, instance_fanout, regs_d, regs_q, max_delay,
                   max_delay_backwards, output, path, consumed, nitems, error>>

(***************************************************************************)
(* analysis.rs: SDFGraphAnalyzed::analyze                                  *)
(***************************************************************************)
\* visit and the loop over its edges.  A result is [md, max, err]: the map,
\* the running maximum, and what aborted the recursion ("" if nothing).
\* depth is the number of visit frames on the call stack.
RECURSIVE visit(_, _, _, _), VisitEdges(_, _, _, _, _, _)

\* the loop that stops after the first edge
VisitEdges_FirstEdgeOnly(md, edges, i, max, bw_edges_fn, depth) ==
    IF i > 1 THEN [md |-> md, max |-> max, err |-> ""]
    ELSE LET edge == edges[i]
         IN  IF edge.dst \notin DOMAIN md
             THEN LET r == visit(md, edge.dst, bw_edges_fn, depth + 1)
                  IN  IF r.err # "" THEN r
                      ELSE VisitEdges(r.md, edges, i + 1,
                                      FMax(max, FAdd(r.md[edge.dst], edge.delay)),
                                      bw_edges_fn, depth)
             ELSE VisitEdges(md, edges, i + 1,
                             FMax(max, FAdd(md[edge.dst], edge.delay)),
                             bw_edges_fn, depth)

VisitEdges(md, edges, i, max, bw_edges_fn, depth) ==
    IF i > Len(edges) THEN [md |-> md, max |-> max, err |-> ""]
    ELSE LET edge == edges[i]
         IN  IF edge.dst \notin DOMAIN md
             THEN LET r == visit(md, edge.dst, bw_edges_fn, depth + 1)
                  IN  IF r.err # "" THEN r
                      ELSE VisitEdges(r.md, edges, i + 1,
                                      FMax(max, FAdd(r.md[edge.dst], edge.delay)),
                                      bw_edges_fn, depth)
             ELSE VisitEdges(md, edges, i + 1,
                             FMax(max, FAdd(md[edge.dst], edge.delay)),
                             bw_edges_fn, depth)

visit(md, node, bw_edges_fn, depth) ==
    IF depth > StackLimit THEN [md |-> md, max |-> NaN, err |-> "StackOverflow"]
    ELSE IF node \notin DOMAIN bw_edges_fn THEN [md |-> md, max |-> NaN, err |-> "NoEntry"]
    ELSE IF bw_edges_fn[node] = <<>>
         THEN [md |-> MapInsert(md, node, NaN), max |-> NaN, err |-> ""]
    ELSE LET r == VisitEdges(md, bw_edges_fn[node], 1, NaN, bw_edges_fn, depth)
         IN  IF r.err # "" THEN r
             ELSE [md |-> MapInsert(r.md, node, r.max), max |-> r.max, err |-> ""]

\* for v in all_keys { if !max_delay.contains_key(v) { visit(..) } }
RECURSIVE VisitAll(_, _, _)
VisitAll(md, all_keys, bw_edges_fn) ==
    IF all_keys = <<>> THEN [md |-> md, max |-> NaN, err |-> ""]
    ELSE IF all_keys[1] \in DOMAIN md THEN VisitAll(md, Tail(all_keys), bw_edges_fn)
    ELSE LET r == visit(md, all_keys[1], bw_edges_fn, 1)
         IN  IF r.err # "" THEN r ELSE VisitAll(r.md, Tail(all_keys), bw_edges_fn)

\* the elements of a Vec, as a set
SetOf(v) == {v[i] : i \in 1..Len(v)}

\* retain that keeps every entry
RetainNotNaN_KeepAll(md) == md

\* max_delay.retain(|_, delay| !delay.is_nan())
RetainNotNaN(md) == [n \in {m \in DOMAIN md : ~is_nan(md[m])} |-> md[n]]

\* delay_pass: seed with 0, visit every key, drop the NaN entries
delay_pass(init, all_keys, bw_edges_fn) ==
    LET seeded == [v \in SetOf(init) |-> 0]
        r      == VisitAll(seeded, all_keys, bw_edges_fn)
    IN  IF r.err # "" THEN r
        ELSE [md |-> RetainNotNaN(r.md), max |-> NaN, err |-> ""]

\* SDFGraphAnalyzed::analyze: the forward pass, then the backward pass
Analyze ==
    /\ phase = "built"
    /\ LET fw == delay_pass(inputs, Keys(graph), reverse_graph)
           bw == delay_pass(outputs, Keys(reverse_graph), graph)
       IN  IF fw.err # ""
           THEN /\ phase' = "crashed"
                /\ error' = fw.err
                /\ UNCHANGED <<max_delay, max_delay_backwards>>
           ELSE IF bw.err # ""
           THEN /\ phase' = "crashed"
                /\ error' = bw.err
                /\ UNCHANGED <<max_delay, max_delay_backwards>>
           ELSE /\ phase' = "analyzed"
                /\ max_delay' = fw.md
                /\ max_delay_backwards' = bw.md
                /\ UNCHANGED error
    /\ UNCHANGED <<mainVars, subcktVars, spiceVars, reportVars, topoVars>>
    /\ UNCHANGED <<graph, reverse_graph, instance_celltype, instance_ins,
                   instance_outs, instance_fanout, regs_d, regs_q, inputs,
                   outputs, output, path, consumed, nitems>>

(***************************************************************************)
(* analysis.rs: SDFGraphAnalyzed::extract_path                             *)
(***************************************************************************)
\* the loop of find_prev with the first tight edge kept
RECURSIVE FindPrevLoop_FirstTight(_, _, _, _, _)
FindPrevLoop_FirstTight(edges, i, delay, md, prev) ==
    IF i > Len(edges) THEN prev
    ELSE LET edge == edges[i]
         IN  IF edge.dst \notin DOMAIN md
             THEN FindPrevLoop_FirstTight(edges, i + 1, delay, md, prev)
             ELSE IF FEq(FAdd(md[edge.dst], edge.delay), delay) /\ prev = <<>>
             THEN FindPrevLoop_FirstTight(edges, i + 1, delay, md, <<edge.dst, md[edge.dst]>>)
             ELSE FindPrevLoop_FirstTight(edges, i + 1, delay, md, prev)

\* the loop of find_prev: the last tight edge wins; None is <<>>
RECURSIVE FindPrevLoop(_, _, _, _, _)
FindPrevLoop(edges, i, delay, md, prev) ==
    IF i > Len(edges) THEN prev
    ELSE LET edge == edges[i]
         IN  IF edge.dst \notin DOMAIN md
             THEN FindPrevLoop(edges, i + 1, delay, md, prev)
             ELSE IF FEq(FAdd(md[edge.dst], edge.delay), delay)
             THEN FindPrevLoop(edges, i + 1, delay, md, <<edge.dst, md[edge.dst]>>)
             ELSE FindPrevLoop(edges, i + 1, delay, md, prev)

find_prev(rg, node, md) == FindPrevLoop(rg[node], 1, md[node], md, <<>>)

\* find_prev indexes both maps with the node
FindPrevPanics(rg, node, md) == node \notin DOMAIN rg \/ node \notin DOMAIN md

\* while let Some((prev_node, delay)) = find_prev(..) { path.push(..) }
\* acc is the path in push order (endpoint side first)
RECURSIVE ExtractLoop(_, _, _, _)
ExtractLoop(rg, node, md, acc) ==
    IF Len(acc) > PathLimit THEN [path |-> acc, err |-> "OutOfMemory"]
    ELSE IF FindPrevPanics(rg, node, md) THEN [path |-> acc, err |-> "IndexPanic"]
    ELSE LET prev == find_prev(rg, node, md)
         IN  IF prev = <<>> THEN [path |-> acc, err |-> ""]
             ELSE ExtractLoop(rg, prev[1], md, Append(acc, prev))

\* the path is left in push order
Reverse_Omitted(v) == v

\* path.reverse()
Reverse(v) == [i \in 1..Len(v) |-> v[Len(v) + 1 - i]]

extract_path(rg, md, out) ==
    LET r == ExtractLoop(rg, out, md, <<>>)
    IN  [path |-> Reverse(r.path), err |-> r.err]

\* extract_path on an endpoint of the analysed graph
ExtractPath(out) ==
    /\ phase = "analyzed"
    /\ out \in SetOf(outputs)
    /\ LET r == extract_path(reverse_graph, max_delay, out)
       IN  /\ output' = out
           /\ IF r.err # ""
              THEN phase' = "crashed" /\ error' = r.err /\ path' = path
              ELSE phase' = "extracted" /\ error' = error /\ path' = r.path
    /\ UNCHANGED <<mainVars, subcktVars, spiceVars, reportVars, topoVars>>
    /\ UNCHANGED <<graph, reverse_graph, instance_celltype, instance_ins,
                   instance_outs, instance_fanout, regs_d, regs_q, inputs,
                   outputs, max_delay, max_delay_backwards, consumed, nitems>>

(***************************************************************************)
(* main.rs: the ranking of the register endpoints and the report loop      *)
(***************************************************************************)
\* the ranking input that keeps the endpoints without an arrival
RECURSIVE FilterMap_KeepAbsent(_, _)
FilterMap_KeepAbsent(v, md) ==
    IF v = <<>> THEN <<>>
    ELSE << <<v[1], IF v[1] \in DOMAIN md THEN md[v[1]] ELSE NaN>> >>
         \o FilterMap_KeepAbsent(Tail(v), md)

\* regs_d.iter().filter_map(|output| Some((output, max_delay.get(output)?)))
RECURSIVE FilterMap(_, _)
FilterMap(v, md) ==
    IF v = <<>> THEN <<>>
    ELSE IF v[1] \in DOMAIN md
         THEN << <<v[1], md[v[1]]>> >> \o FilterMap(Tail(v), md)
         ELSE FilterMap(Tail(v), md)

\* sort_by_key(|(_, delay)| Reverse(OrderedFloat(**delay))): a stable sort,
\* larger delays first
RECURSIVE SortByKeyReverse(_)
SortByKeyReverse(v) ==
    IF v = <<>> THEN <<>>
    ELSE LET i == CHOOSE j \in 1..Len(v) :
                    /\ \A k \in 1..Len(v) : v[k][2] <= v[j][2]
                    /\ \A k \in 1..(j - 1) : v[k][2] < v[j][2]
         IN  <<v[i]>> \o SortByKeyReverse(SubSeq(v, 1, i - 1) \o SubSeq(v, i + 1, Len(v)))

\* Iterator::skip and Iterator::take
Skip(v, n) == SubSeq(v, n + 1, Len(v))
Take(v, n) == SubSeq(v, 1, IF n < Len(v) THEN n ELSE Len(v))

\* main after analyze: rank the D nodes by arrival, then report
\* outputs_with_delay.into_iter().skip(1).take(1), with its extracted path
Report ==
    /\ phase = "analyzed"
    /\ LET ranked   == SortByKeyReverse(FilterMap(regs_d, max_delay))
           selected == Take(Skip(ranked, 1), 1)
       IN  /\ outputs_with_delay' = ranked
           /\ reported' = selected
           /\ IF selected = <<>>
              THEN phase' = "reported" /\ UNCHANGED <<output, path, error>>
              ELSE LET r == extract_path(reverse_graph, max_delay, selected[1][1])
                   IN  /\ output' = selected[1][1]
                       /\ IF r.err # ""
                          THEN phase' = "crashed" /\ error' = r.err /\ path' = path
                          ELSE phase' = "reported" /\ error' = error /\ path' = r.path
    /\ UNCHANGED <<subcktVars, spiceVars, reportVars, topoVars>>
    /\ UNCHANGED <<graph, reverse_graph, instance_celltype, instance_ins,
                   instance_outs, instance_fanout, regs_d, regs_q, inputs,
                   outputs, max_delay, max_delay_backwards, consumed, nitems>>

Next ==
    \/ \E it \in Items : Interconnect(it)
    \/ \E it \in Items : IOPath(it)
    \/ EndpointDiscovery
    \/ Analyze
    \/ \E out \in SetOf(outputs) : ExtractPath(out)
    \/ Report

Spec == Init /\ [][Next]_vars

(***************************************************************************)
(* graph.rs and analysis.rs on a whole SDF: the cell loop as a function of *)
(* the list of delay items                                                 *)
(***************************************************************************)
\* the elements of a set in an order that depends on the set alone
RECURSIVE InFixedOrder(_)
InFixedOrder(S) ==
    IF S = {} THEN <<>>
    ELSE LET x == CHOOSE y \in S : TRUE
         IN  <<x>> \o InFixedOrder(S \ {x})

\* the locals of SDFGraph::new before the first cell
EmptyGraph ==
    [graph |-> <<>>, reverse_graph |-> <<>>, instance_celltype |-> <<>>,
     instance_ins |-> <<>>, instance_outs |-> <<>>, instance_fanout |-> <<>>,
     regs_d |-> <<>>, regs_q |-> <<>>]

\* the locals of SDFGraph::new after one more delay item
ReadItem(g, it) ==
    LET up   == parse_delays(it.delay)[1]
        down == parse_delays(it.delay)[2]
    IN  IF it.kind = "Interconnect"
        THEN LET a_name == unique_name(it.a)
                 b_name == unique_name(it.b)
             IN  [g EXCEPT
                  !.instance_celltype =
                     MapInsert(g.instance_celltype, unique_name(it.instance), it.celltype),
                  !.instance_fanout =
                     IF HasInstance(a_name)
                     THEN SetInsert(g.instance_fanout, InstanceOf(a_name), b_name)
                     ELSE g.instance_fanout,
                  !.graph =
                     EnsureAll(PushAll(g.graph, InterconnectEdges(a_name, b_name, up, down)),
                               BothTransitions(b_name)),
                  !.reverse_graph =
                     EnsureAll(PushAll(g.reverse_graph,
                                       InterconnectReverseEdges(a_name, b_name, up, down)),
                               BothTransitions(a_name) \o BothTransitions(b_name))]
        ELSE LET cell_name == unique_name(it.instance)
                 unate     == UnatenessData[celltype_short(it.celltype)][it.a_port]
                 a_name    == unique_name_port(cell_name, it.a_port)
                 b_name    == unique_name_port(cell_name, it.b_port)
             IN  [g EXCEPT
                  !.instance_celltype = MapInsert(g.instance_celltype, cell_name, it.celltype),
                  !.instance_ins = SetInsert(g.instance_ins, cell_name, a_name),
                  !.instance_outs = SetInsert(g.instance_outs, cell_name, b_name),
                  !.regs_d = IF IsFlipFlopArc(it)
                             THEN g.regs_d \o BothTransitions(Append(cell_name, "D"))
                             ELSE g.regs_d,
                  !.regs_q = IF IsFlipFlopArc(it)
                             THEN g.regs_q \o BothTransitions(Append(cell_name, "Q"))
                             ELSE g.regs_q,
                  !.graph =
                     EnsureAll(PushAll(g.graph, IOPathEdges(unate, a_name, b_name, up, down)),
                               BothTransitions(b_name)),
                  !.reverse_graph =
                     EnsureAll(PushAll(g.reverse_graph,
                                       IOPathReverseEdges(unate, a_name, b_name, up, down)),
                               BothTransitions(a_name))]

\* the cell loop over a list of delay items none of which is refused
RECURSIVE ReadItems(_, _)
ReadItems(g, its) ==
    IF its = <<>> THEN g ELSE ReadItems(ReadItem(g, its[1]), Tail(its))

(***************************************************************************)
(* spice.rs: pfet_size and nfet_size.  Widths are in hundredths of a       *)
(* micron, the multiplicity in thousandths.                                *)
(***************************************************************************)
\* the largest width requested
MaxWidth == 720

BINS_PFET ==
    <<36, 42, 54, 55, 63, 64, 70, 75, 79, 82, 84, 86, 94, 100, 112, 126, 165,
      168, 200, 300, 500, 700>>

BINS_NFET ==
    <<36, 39, 42, 52, 54, 55, 58, 60, 61, 64, 65, 74, 84, 100, 126, 168, 200,
      300, 500, 700>>

\* slice::binary_search_by on a slice indexed from 0: Ok(i) where the element
\* is, Err(i) where it would be inserted
RECURSIVE BinarySearchLoop(_, _, _, _)
BinarySearchLoop(bins, x, left, right) ==
    IF left >= right THEN [ok |-> FALSE, pos |-> left]
    ELSE LET mid == left + ((right - left) \div 2)
         IN  IF bins[mid + 1] < x THEN BinarySearchLoop(bins, x, mid + 1, right)
             ELSE IF bins[mid + 1] > x THEN BinarySearchLoop(bins, x, left, mid)
             ELSE [ok |-> TRUE, pos |-> mid]

binary_search_by(bins, x) == BinarySearchLoop(bins, x, 0, Len(bins))

\* the body pfet_size and nfet_size share: .unwrap_or_else(|x| x), the bin at
\* min(pos, len - 1), mult = w / closest_bin
fet_size_of(bins, width) ==
    LET pos == binary_search_by(bins, width).pos
        closest_bin == bins[(IF pos < Len(bins) - 1 THEN pos ELSE Len(bins) - 1) + 1]
    IN  <<closest_bin, (1000 * width) \div closest_bin>>

pfet_size(width) == fet_size_of(BINS_PFET, width)

nfet_size(width) == fet_size_of(BINS_NFET, width)

\* a width is requested
SpiceInit ==
    /\ GraphIdle
    /\ MainIdle
    /\ SubcktIdle
    /\ ReportIdle
    /\ TopoIdle
    /\ w \in 1..MaxWidth
    /\ fet_size = <<>>

PfetSize ==
    /\ fet_size = <<>>
    /\ fet_size' = <<"pfet", pfet_size(w)>>
    /\ UNCHANGED <<graph, reverse_graph, instance_celltype, instance_ins,
                   instance_outs, instance_fanout, regs_d, regs_q, inputs,
                   outputs, max_delay, max_delay_backwards, output, path,
                   consumed, nitems, phase, error, mainVars, subcktVars, reportVars, topoVars, w>>

NfetSize ==
    /\ fet_size = <<>>
    /\ fet_size' = <<"nfet", nfet_size(w)>>
    /\ UNCHANGED <<graph, reverse_graph, instance_celltype, instance_ins,
                   instance_outs, instance_fanout, regs_d, regs_q, inputs,
                   outputs, max_delay, max_delay_backwards, output, path,
                   consumed, nitems, phase, error, mainVars, subcktVars, reportVars, topoVars, w>>

SpiceNext == PfetSize \/ NfetSize

SpecSpice == SpiceInit /\ [][SpiceNext]_vars

(***************************************************************************)
(* subckt.rs: Subckt::new and SubcktData::instanciate.  A line is the      *)
(* sequence of its whitespace-separated words.                             *)
(***************************************************************************)
\* the number of body lines of a subcircuit
MaxLines == 2

\* the .subckt line of the test of subckt.rs, and one of a library cell
SubcktLines ==
    { <<".subckt", "sky130_fd_sc_hd__and4", "a", "b", "c", "y">>,
      <<".subckt", "sky130_fd_sc_hd__nand2_1", "A", "B", "VGND", "VPWR", "Y">> }

\* the body lines that go with each .subckt line: those of the test, and
\* transistor instances as the library writes them
BodyLines(subckt_line) ==
    IF subckt_line[2] = "sky130_fd_sc_hd__and4"
    THEN { <<"M1", "y", "a", "b", "vdd", "sky130_fd_sc_hd__nmos">>,
           <<"M2", "y", "c", "b", "vdd", "sky130_fd_sc_hd__nmos">>,
           <<"M3", "y", "a", "c", "vdd", "sky130_fd_sc_hd__pmos">>,
           <<"M4", "a_test#", "a", "vdd", "vdd", "sky130_fd_sc_hd__nmos">> }
    ELSE { <<"X0", "Y", "A", "VPWR", "VPB", "sky130_fd_pr__pfet_01v8_hvt", "w=1.0", "l=0.15">>,
           <<"X1", "Y", "A", "a_113_47#", "VNB", "sky130_fd_pr__nfet_01v8", "w=0.65">>,
           <<"X2", "a_113_47#", "B", "VGND", "VNB", "sky130_fd_pr__special_nfet_01v8">> }

\* the sequences of 1 to n elements of S
RECURSIVE SeqsUpTo(_, _)
SeqsUpTo(S, n) ==
    IF n = 0 THEN {}
    ELSE LET shorter == SeqsUpTo(S, n - 1)
         IN  {<<x>> : x \in S} \cup shorter \cup
             {Append(v, x) : v \in shorter, x \in S}

\* the whole body of the test of subckt.rs
TestBody ==
    << <<"M1", "y", "a", "b", "vdd", "sky130_fd_sc_hd__nmos">>,
       <<"M2", "y", "c", "b", "vdd", "sky130_fd_sc_hd__nmos">>,
       <<"M3", "y", "a", "c", "vdd", "sky130_fd_sc_hd__pmos">>,
       <<"M4", "a_test#", "a", "vdd", "vdd", "sky130_fd_sc_hd__nmos">> >>

\* the texts SubcktData::new reads: .subckt line, body, .ends
Contents ==
    UNION { { <<sl>> \o body \o << <<".ends">> >>
                : body \in SeqsUpTo(BodyLines(sl), MaxLines) } : sl \in SubcktLines }
    \cup { << <<".subckt", "sky130_fd_sc_hd__and4", "a", "b", "c", "y">> >>
           \o TestBody \o << <<".ends">> >> }

\* the bindings of the caller: every IO pin, or all but one
Values ==
    { [a |-> "oa", b |-> "ob", c |-> "oc", y |-> "oy"],
      [a |-> "oa", b |-> "ob", y |-> "oy"],
      [A |-> "oa", B |-> "ob", Y |-> "oy", VGND |-> "0", VPWR |-> "Vdd"],
      [A |-> "oa", Y |-> "oy", VGND |-> "0", VPWR |-> "Vdd"] }

InstanceNames == {"and4_0", "nand2_7"}

\* line.starts_with('X'), line.starts_with(".ends")
starts_with_X(line) == line # <<>> /\ line[1] \in {"X0", "X1", "X2"}
starts_with_ends(line) == line # <<>> /\ line[1] = ".ends"

\* words.next().unwrap().starts_with("sky130_fd_pr__nfet")
TransistorKind(word) ==
    IF word = "sky130_fd_pr__nfet_01v8" THEN "Nfet" ELSE "Pfet"

\* the Transistor a line starting with 'X' stands for
Transistor(line) ==
    [kind |-> TransistorKind(line[6]), drain |-> line[2], gate |-> line[3],
     source |-> line[4]]

\* the loop of Subckt::new over the lines after the .subckt line, up to the
\* .ends line: the transistors and the body
RECURSIVE ReadBody(_, _, _, _)
ReadBody(lines, i, transistors, body) ==
    IF i > Len(lines) \/ starts_with_ends(lines[i])
    THEN [transistors |-> transistors, body |-> body]
    ELSE ReadBody(lines, i + 1,
                  IF starts_with_X(lines[i])
                  THEN Append(transistors, Transistor(lines[i]))
                  ELSE transistors,
                  Append(body, lines[i]))

\* temp_variables: the drains, gates and sources that are no IO pin
temp_variables_of(transistors, io_pins) ==
    UNION { {transistors[i].drain, transistors[i].gate, transistors[i].source}
            : i \in 1..Len(transistors) } \ SetOf(io_pins)

\* Subckt::new; input_pin_load and output_pin_drive, numbers derived from the
\* transistors that call and instanciate never read, are left out
Subckt_new(subckt_line, lines) ==
    LET io_pins == SubSeq(subckt_line, 3, Len(subckt_line))
        read    == ReadBody(lines, 1, <<>>, <<>>)
    IN  [name |-> subckt_line[2],
         pins |-> io_pins,
         temp_variables |-> temp_variables_of(read.transistors, io_pins),
         body |-> read.body]

\* the substitutions of instanciate: the temp variables get the instance
\* name as a prefix, then every IO pin gets its bound value
substitutions_of(sub, inst, vals) ==
    [word \in sub.temp_variables \cup SetOf(sub.pins) |->
        IF word \in SetOf(sub.pins) THEN vals[word] ELSE inst \o "_" \o word]

\* one word of a body line as instanciate writes it
InstanciateWord(word, first_word, substitutions, inst) ==
    IF first_word THEN word \o "_" \o inst
    ELSE IF word \in DOMAIN substitutions THEN substitutions[word]
    ELSE IF word = "sky130_fd_pr__special_nfet_01v8" THEN "sky130_fd_pr__nfet_01v8"
    ELSE word

\* the lines instanciate writes for the body
InstanciateBody(sub, inst, vals) ==
    LET substitutions == substitutions_of(sub, inst, vals)
    IN  [i \in 1..Len(sub.body) |->
            [j \in 1..Len(sub.body[i]) |->
                InstanciateWord(sub.body[i][j], j = 1, substitutions, inst)]]

\* a text, the bindings and the instance name are given
SubcktInit ==
    /\ GraphIdle
    /\ MainIdle
    /\ SpiceIdle
    /\ ReportIdle
    /\ TopoIdle
    /\ contents \in Contents
    /\ values \in Values
    /\ subckt_instance \in InstanceNames
    /\ subckt = <<>>
    /\ spice_append = <<>>

\* SubcktData::new: the first line is a .subckt line, Subckt::new reads on
SubcktDataNew ==
    /\ phase = "new"
    /\ subckt = <<>>
    /\ subckt' = Subckt_new(contents[1], Tail(contents))
    /\ UNCHANGED <<graph, reverse_graph, instance_celltype, instance_ins,
                   instance_outs, instance_fanout, regs_d, regs_q, inputs,
                   outputs, max_delay, max_delay_backwards, output, path,
                   consumed, nitems, phase, error, mainVars, spiceVars, reportVars, topoVars,
                   contents, values, subckt_instance, spice_append>>

\* SubcktData::instanciate for the cell type that was read: it panics on
\* the first IO pin without a value, before it writes anything
Instanciate ==
    /\ phase = "new"
    /\ subckt # <<>>
    /\ IF \E i \in 1..Len(subckt.pins) : subckt.pins[i] \notin DOMAIN values
       THEN phase' = "panicked" /\ error' = "MissingValue"
            /\ spice_append' = spice_append
       ELSE phase' = "instanciated" /\ error' = error
            /\ spice_append' = spice_append
                                 \o InstanciateBody(subckt, subckt_instance, values)
    /\ UNCHANGED <<graph, reverse_graph, instance_celltype, instance_ins,
                   instance_outs, instance_fanout, regs_d, regs_q, inputs,
                   outputs, max_delay, max_delay_backwards, output, path,
                   consumed, nitems, mainVars, spiceVars, reportVars, topoVars,
                   contents, values, subckt_instance, subckt>>

SubcktNext == SubcktDataNew \/ Instanciate

SpecSubckt == SubcktInit /\ [][SubcktNext]_vars

(***************************************************************************)
(* html.rs and spice.rs: extract_html_for_manual_analysis and              *)
(* extract_spice_for_manual_analysis.  Both build their text in memory and *)
(* write the file with their last statement; the text itself is left out,  *)
(* the statements that can panic on the way are kept in source order.      *)
(***************************************************************************)
\* number of delay items of an SDF handed to the reporters
MaxCells == 4

\* instance_name: the part before the last '/', the whole name without one
instance_name(pin) == IF HasInstance(pin) THEN InstanceOf(pin) ELSE pin

\* pin_name_ref: the part after the last '/', the whole name without one
pin_name_ref(pin) == pin[Len(pin)]

\* BiUnate
Positive == "Positive"
Negative == "Negative"

\* the embedded cells_transition_combinations.json:
\* celltype -> input pin -> list of {pins, unate}
CELL_TRANSITION_COMBINATIONS ==
    [sky130_fd_sc_hd__buf_1  |-> [A |-> << [pins |-> <<>>, unate |-> Positive] >>],
     sky130_fd_sc_hd__inv_1  |-> [A |-> << [pins |-> <<>>, unate |-> Negative] >>],
     sky130_fd_sc_hd__xor2_1 |->
        [A |-> << [pins |-> [B |-> FALSE], unate |-> Positive],
                  [pins |-> [B |-> TRUE],  unate |-> Negative] >>,
         B |-> << [pins |-> [A |-> FALSE], unate |-> Positive],
                  [pins |-> [A |-> TRUE],  unate |-> Negative] >>]]

\* the SubcktData handed to the SPICE reporter: per cell type the IO pins of
\* its .subckt line and the output pins that have a drive
CellLibrary ==
    [sky130_fd_sc_hd__buf_1   |->
        [pins |-> <<"A", "VGND", "VNB", "VPB", "VPWR", "X">>, output_pin_drive |-> {"X"}],
     sky130_fd_sc_hd__inv_1   |->
        [pins |-> <<"A", "VGND", "VNB", "VPB", "VPWR", "X">>, output_pin_drive |-> {"X"}],
     sky130_fd_sc_hd__xor2_1  |->
        [pins |-> <<"A", "B", "VGND", "VNB", "VPB", "VPWR", "X">>, output_pin_drive |-> {"X"}],
     sky130_fd_sc_hd__dfxtp_1 |->
        [pins |-> <<"CLK", "D", "VGND", "VNB", "VPB", "VPWR", "Q">>, output_pin_drive |-> {"Q"}]]

\* the delay items the SDFs handed to the reporters are made of
ReportItems ==
    { IOP(<<"U1">>, "sky130_fd_sc_hd__dfxtp_1", "CLK", "Q", <<1, 2>>, "None", "None"),
      Inter(<<"U1", "Q">>, <<"U2", "A">>, <<1>>),
      Inter(<<"U1", "Q">>, <<"U2", "B">>, <<1>>),
      Inter(<<"U2", "X">>, <<"U1", "D">>, <<1>>),
      Inter(<<"U1", "Q">>, <<"U1", "D">>, <<1>>),
      Inter(<<"a">>, <<"U2", "A">>, <<0>>),
      Inter(<<"clk">>, <<"U1", "CLK">>, <<0>>) } \cup
    { IOP(<<"U2">>, ct, "A", "X", <<1, 2>>, "None", "None")
        : ct \in {"sky130_fd_sc_hd__buf_1", "sky130_fd_sc_hd__inv_1",
                  "sky130_fd_sc_hd__xor2_1"} }

\* the SDFs: up to MaxCells of the items, each list in one order
SDFs == { InFixedOrder(S) : S \in { T \in SUBSET ReportItems : Cardinality(T) <= MaxCells } }

\* SDFGraph::new, analyze and extract_path ran on an SDF and an endpoint of
\* its graph; the reporters are about to be called with the result
ReportInit ==
    /\ MainIdle
    /\ SubcktIdle
    /\ SpiceIdle
    /\ TopoIdle
    /\ \E its \in SDFs :
          LET g    == ReadItems(EmptyGraph, its)
              ins  == Retain(sort_unstable(EmptyKeys(g.reverse_graph, Keys(g.reverse_graph))),
                             DetectClk(g.graph), DetectRst(g.graph)) \o g.regs_q
              outs == sort_unstable(EmptyKeys(g.graph, Keys(g.graph))) \o g.regs_d
              fw   == delay_pass(ins, Keys(g.graph), g.reverse_graph)
              bw   == delay_pass(outs, Keys(g.reverse_graph), g.graph)
          IN  /\ fw.err = "" /\ bw.err = ""
              /\ \E out \in SetOf(outs) :
                    LET r == extract_path(g.reverse_graph, fw.md, out)
                    IN  /\ r.err = ""
                        /\ output = out
                        /\ path = r.path
              /\ sdf = its
              /\ consumed = SetOf(its)
              /\ nitems = Len(its)
              /\ graph = g.graph
              /\ reverse_graph = g.reverse_graph
              /\ instance_celltype = g.instance_celltype
              /\ instance_ins = g.instance_ins
              /\ instance_outs = g.instance_outs
              /\ instance_fanout = g.instance_fanout
              /\ regs_d = g.regs_d
              /\ regs_q = g.regs_q
              /\ inputs = ins
              /\ outputs = outs
              /\ max_delay = fw.md
              /\ max_delay_backwards = bw.md
    /\ phase = "extracted"
    /\ error = ""
    /\ instances = <<>>
    /\ pin_vals = <<>>
    /\ warned = <<>>
    /\ files = {}

\* the loop over the path entries that opens a traversal for every entry
RECURSIVE HtmlCompaction_NoGrouping(_, _)
HtmlCompaction_NoGrouping(p, acc) ==
    IF p = <<>> THEN acc
    ELSE HtmlCompaction_NoGrouping(Tail(p),
            Append(acc, <<instance_name(p[1][1][1]), p[1][1], p[1][1]>>))

\* html.rs: the loop over the path entries; a traversal is
\* <<instance, entering pin, leaving pin>>
RECURSIVE HtmlCompaction(_, _)
HtmlCompaction(p, acc) ==
    IF p = <<>> THEN acc
    ELSE LET pin_t    == p[1][1]
             instance == instance_name(pin_t[1])
         IN  IF acc # <<>> /\ acc[Len(acc)][1] = instance
             THEN HtmlCompaction(Tail(p), [acc EXCEPT ![Len(acc)][3] = pin_t])
             ELSE HtmlCompaction(Tail(p), Append(acc, <<instance, pin_t, pin_t>>))

\* html.rs: the table rows index instance_ins and instance_fanout with the
\* instance of every traversal
RECURSIVE HtmlRows(_, _, _)
HtmlRows(insts, ins_map, fanout_map) ==
    IF insts = <<>> THEN ""
    ELSE IF insts[1][1] \notin DOMAIN ins_map THEN "NoInstanceIns"
    ELSE IF insts[1][1] \notin DOMAIN fanout_map THEN "NoInstanceFanout"
    ELSE HtmlRows(Tail(insts), ins_map, fanout_map)

\* extract_html_for_manual_analysis up to its last statement: the
\* traversals built and what stopped the call, "" if nothing did
extract_html_for_manual_analysis(ins_map, fanout_map, out, p) ==
    LET compacted == HtmlCompaction(p, <<>>)
        all       == Append(compacted, <<InstanceOf(out[1]), out, out>>)
    IN  IF ~HasInstance(out[1]) THEN [instances |-> compacted, err |-> "NoSlashInOutput"]
        ELSE IF p = <<>> THEN [instances |-> all, err |-> "NoLastPin"]
        ELSE [instances |-> all, err |-> HtmlRows(all, ins_map, fanout_map)]

\* the HTML reporter that creates path.html before it builds the text
HtmlReport_WritesFirst ==
    /\ phase = "extracted"
    /\ LET r == extract_html_for_manual_analysis(instance_ins, instance_fanout, output, path)
       IN  /\ instances' = r.instances
           /\ files' = files \cup {"path.html"}
           /\ IF r.err # ""
              THEN phase' = "crashed" /\ error' = r.err
              ELSE phase' = "html" /\ error' = error
    /\ UNCHANGED <<mainVars, subcktVars, spiceVars, topoVars, sdf, pin_vals, warned>>
    /\ UNCHANGED <<graph, reverse_graph, instance_celltype, instance_ins,
                   instance_outs, instance_fanout, regs_d, regs_q, inputs,
                   outputs, max_delay, max_delay_backwards, output, path,
                   consumed, nitems>>

\* the HTML reporter is called on the extracted path
HtmlReport ==
    /\ phase = "extracted"
    /\ LET r == extract_html_for_manual_analysis(instance_ins, instance_fanout, output, path)
       IN  /\ instances' = r.instances
           /\ IF r.err # ""
              THEN phase' = "crashed" /\ error' = r.err /\ files' = files
              ELSE phase' = "html" /\ error' = error /\ files' = files \cup {"path.html"}
    /\ UNCHANGED <<mainVars, subcktVars, spiceVars, topoVars, sdf, pin_vals, warned>>
    /\ UNCHANGED <<graph, reverse_graph, instance_celltype, instance_ins,
                   instance_outs, instance_fanout, regs_d, regs_q, inputs,
                   outputs, max_delay, max_delay_backwards, output, path,
                   consumed, nitems>>

\* spice.rs: the loop over the path entries; a traversal is
\* <<instance, cell type, entering pin, leaving pin>>, last_pin is <<>> for None
RECURSIVE SpiceCompaction(_, _)
SpiceCompaction(p, acc) ==
    IF p = <<>> THEN acc
    ELSE LET pin      == p[1][1]
             instance == instance_name(pin[1])
             insts    == acc.instances
         IN  IF instance \notin DOMAIN instance_celltype
             THEN [acc EXCEPT !.err = "NoInstanceCelltype"]
             ELSE IF insts # <<>> /\ insts[Len(insts)][1] = instance
             THEN SpiceCompaction(Tail(p),
                     [acc EXCEPT !.instances[Len(insts)][4] = pin, !.last_pin = pin])
             ELSE SpiceCompaction(Tail(p),
                     [acc EXCEPT
                      !.wires = IF acc.last_pin # <<>>
                                THEN Append(@, <<acc.last_pin[1], pin[1]>>)
                                ELSE @,
                      !.instances = Append(@, <<instance, instance_celltype[instance],
                                                pin, pin>>),
                      !.last_pin = pin])

\* the fanout pins off the path are looked up in instance_celltype
FanoutCelltypesKnown(fanout, skipped) ==
    \A fanout_pin \in fanout \ skipped :
       instance_name(fanout_pin) \in DOMAIN instance_celltype

\* the polarity of a traversal
UnateOfTraversal(pin_i, pin_o) == IF pin_i[2] = pin_o[2] THEN Positive ELSE Negative

\* the selection that takes the first table entry whatever its polarity
select_pin_vals_AnyPolarity(celltype, transition_pin, unate) ==
    IF celltype \notin DOMAIN CELL_TRANSITION_COMBINATIONS
    THEN [val |-> <<>>, err |-> ""]
    ELSE IF transition_pin \notin DOMAIN CELL_TRANSITION_COMBINATIONS[celltype]
    THEN [val |-> <<>>, err |-> ""]
    ELSE [val |-> <<CELL_TRANSITION_COMBINATIONS[celltype][transition_pin][1]>>, err |-> ""]

\* transdata.data.get(celltype).and_then(|v| v.get(transition_pin))
\*     .map(|v| v.iter().find(|v| v.unate == unate).expect("No transition found"))
\* val is <<>> for None, <<entry>> for Some(entry)
select_pin_vals(celltype, transition_pin, unate) ==
    IF celltype \notin DOMAIN CELL_TRANSITION_COMBINATIONS
    THEN [val |-> <<>>, err |-> ""]
    ELSE IF transition_pin \notin DOMAIN CELL_TRANSITION_COMBINATIONS[celltype]
    THEN [val |-> <<>>, err |-> ""]
    ELSE LET v     == CELL_TRANSITION_COMBINATIONS[celltype][transition_pin]
             found == { i \in 1..Len(v) : v[i].unate = unate }
         IN  IF found = {} THEN [val |-> <<>>, err |-> "NoTransitionFound"]
             ELSE [val |-> <<v[CHOOSE i \in found : \A j \in found : i <= j]>>, err |-> ""]

\* the loop over the pins of the cell's subcircuit: a pin without a value
\* is looked up in the reverse graph and, for a cell with a side-input
\* assignment, given a driver
RECURSIVE SpicePins(_, _, _, _, _)
SpicePins(pins, vals, instance, celltype, pv) ==
    IF pins = <<>> THEN ""
    ELSE IF pins[1] \in vals THEN SpicePins(Tail(pins), vals, instance, celltype, pv)
    ELSE LET pin      == pins[1]
             full_pin == Append(instance, pin)
             node     == <<full_pin, Rise>>
         IN  IF node \notin DOMAIN reverse_graph THEN "NoReverseEntry"
             ELSE IF reverse_graph[node] = <<>> THEN "IndexOutOfBounds"
             ELSE LET connected_to   == reverse_graph[node][1].dst[1]
                      instance_name_ == instance_name(connected_to)
                      rest == SpicePins(Tail(pins), vals \cup {pin}, instance, celltype, pv)
                  IN  IF celltype_short(celltype) = "dfxtp" THEN rest
                      ELSE IF pv = <<>> THEN rest
                      ELSE IF instance_name_ \in DOMAIN instance_celltype
                      THEN LET celltype_name == instance_celltype[instance_name_]
                           IN  IF celltype_name \notin DOMAIN CellLibrary THEN "NoSubckt"
                               ELSE IF pin_name_ref(connected_to)
                                          \notin CellLibrary[celltype_name].output_pin_drive
                               THEN "NoDrive"
                               ELSE IF pin \notin DOMAIN pv[1].pins THEN "NoPinVal"
                               ELSE IF instance_name_ \notin DOMAIN instance_fanout
                               THEN "NoInstanceFanout"
                               ELSE IF ~FanoutCelltypesKnown(instance_fanout[instance_name_],
                                                             {full_pin})
                               THEN "NoInstanceCelltype"
                               ELSE rest
                      ELSE IF pin \notin DOMAIN pv[1].pins THEN "NoPinVal"
                      ELSE rest

\* one turn of the loop over the traversals: what stopped it ("" if nothing
\* did), whether the selection was reached, what it gave, and whether the
\* warning was printed
SpiceCell(inst, all_pins_in_path) ==
    LET instance       == inst[1]
        celltype       == inst[2]
        pin_i          == inst[3]
        pin_o          == inst[4]
        transition_pin == pin_name_ref(pin_i[1])
        sel            == select_pin_vals(celltype, transition_pin,
                                          UnateOfTraversal(pin_i, pin_o))
        none           == [err |-> "", selected |-> FALSE, val |-> <<>>, warn |-> FALSE]
    IN  IF instance \notin DOMAIN instance_fanout
        THEN [none EXCEPT !.err = "NoInstanceFanout"]
        ELSE IF ~FanoutCelltypesKnown(instance_fanout[instance], all_pins_in_path)
        THEN [none EXCEPT !.err = "NoInstanceCelltype"]
        ELSE IF instance \notin DOMAIN instance_outs
        THEN [none EXCEPT !.err = "NoInstanceOuts"]
        ELSE IF sel.err # ""
        THEN [none EXCEPT !.err = sel.err]
        ELSE LET vals == {"VGND", "VNB", "VPB", "VPWR", "CLK", "RESET_B", transition_pin}
                            \cup { pin_name_ref(out) : out \in instance_outs[instance] }
                 warn == sel.val = <<>> /\ celltype_short(celltype) # "dfxtp"
                 done == [err |-> "", selected |-> TRUE, val |-> sel.val, warn |-> warn]
             IN  IF celltype \notin DOMAIN CellLibrary
                 THEN [done EXCEPT !.err = "NoSubckt"]
                 ELSE [done EXCEPT !.err = SpicePins(CellLibrary[celltype].pins, vals,
                                                     instance, celltype, sel.val)]

\* the loop over the traversals
RECURSIVE SpiceCells(_, _, _)
SpiceCells(insts, all_pins_in_path, acc) ==
    IF insts = <<>> THEN acc
    ELSE LET c    == SpiceCell(insts[1], all_pins_in_path)
             next == [err      |-> c.err,
                      pin_vals |-> IF c.selected THEN Append(acc.pin_vals, c.val)
                                   ELSE acc.pin_vals,
                      warned   |-> IF c.warn THEN Append(acc.warned, insts[1][2])
                                   ELSE acc.warned]
         IN  IF c.err # "" THEN next
             ELSE SpiceCells(Tail(insts), all_pins_in_path, next)

\* the loop over the wires without parasitics: the fanout of the driving
\* instance is looked up
SpiceWires(wires) ==
    IF \E i \in 1..Len(wires) : instance_name(wires[i][1]) \notin DOMAIN instance_fanout
    THEN "NoInstanceFanout"
    ELSE ""

\* extract_spice_for_manual_analysis up to its last statement
extract_spice_for_manual_analysis(out, p) ==
    LET c    == SpiceCompaction(p, [instances |-> <<>>, wires |-> <<>>,
                                    last_pin |-> <<>>, err |-> ""])
        stop(insts, e) == [instances |-> insts, pin_vals |-> <<>>, warned |-> <<>>,
                           err |-> e]
    IN  IF c.err # "" THEN stop(c.instances, c.err)
        ELSE IF ~HasInstance(out[1]) THEN stop(c.instances, "NoSlashInOutput")
        ELSE IF InstanceOf(out[1]) \notin DOMAIN instance_celltype
        THEN stop(c.instances, "NoInstanceCelltype")
        ELSE LET o_instance == InstanceOf(out[1])
                 all   == Append(c.instances,
                                 <<o_instance, instance_celltype[o_instance], out, out>>)
             IN  IF c.last_pin = <<>> THEN stop(all, "NoLastPin")
                 ELSE LET wires == Append(c.wires, <<c.last_pin[1], out[1]>>)
                          cells == SpiceCells(all, { p[i][1][1] : i \in 1..Len(p) },
                                              [err |-> "", pin_vals |-> <<>>,
                                               warned |-> <<>>])
                      IN  [instances |-> all,
                           pin_vals  |-> cells.pin_vals,
                           warned    |-> cells.warned,
                           err       |-> IF cells.err # "" THEN cells.err
                                         ELSE IF o_instance \notin DOMAIN instance_outs
                                         THEN "NoInstanceOuts"
                                         ELSE SpiceWires(wires)]

\* the SPICE reporter is called on the extracted path
SpiceReport ==
    /\ phase = "extracted"
    /\ LET r == extract_spice_for_manual_analysis(output, path)
       IN  /\ instances' = r.instances
           /\ pin_vals' = r.pin_vals
           /\ warned' = r.warned
           /\ IF r.err # ""
              THEN phase' = "crashed" /\ error' = r.err /\ files' = files
              ELSE phase' = "spice" /\ error' = error /\ files' = files \cup {"out.spice"}
    /\ UNCHANGED <<mainVars, subcktVars, spiceVars, topoVars, sdf>>
    /\ UNCHANGED <<graph, reverse_graph, instance_celltype, instance_ins,
                   instance_outs, instance_fanout, regs_d, regs_q, inputs,
                   outputs, max_delay, max_delay_backwards, output, path,
                   consumed, nitems>>

ReportNext == HtmlReport \/ SpiceReport

SpecReport == ReportInit /\ [][ReportNext]_vars

(***************************************************************************)
(* util.rs: topological_sort.  The state of a visit is the record          *)
(* [unmarked, marked, temp, sorted, err]; err is <<>> for Ok(()) and <<n>> *)
(* for Err(n).                                                             *)
(***************************************************************************)
\* the nodes the sorted graphs are made of
TopoNodes == {"a", "b", "c"}

\* the number of edges of a sorted graph
MaxEdges == 3

\* the graphs: lists of edges <<from, to>>, in the order the successors
\* function yields them
EdgeLists == UNION {[1..n -> TopoNodes \X TopoNodes] : n \in 0..MaxEdges}

\* the targets of the edges that leave node, in list order
RECURSIVE TargetsOf(_, _)
TargetsOf(edges, node) ==
    IF edges = <<>> THEN <<>>
    ELSE IF edges[1][1] = node
         THEN <<edges[1][2]>> \o TargetsOf(Tail(edges), node)
         ELSE TargetsOf(Tail(edges), node)

\* the successors function of a list of edges
SuccessorsOf(edges) == [n \in TopoNodes |-> TargetsOf(edges, n)]

RECURSIVE TopoVisit(_, _, _), TopoVisitSuccessors(_, _, _, _)

\* visit that pushes the node to the back of the order
TopoVisit_PushBack(succ, node, st) ==
    LET st1 == [st EXCEPT !.unmarked = @ \ {node}]
    IN  IF node \in st1.marked THEN st1
        ELSE IF node \in st1.temp THEN [st1 EXCEPT !.err = <<node>>]
        ELSE LET st2 == TopoVisitSuccessors(succ, succ[node], 1,
                                            [st1 EXCEPT !.temp = @ \cup {node}])
             IN  IF st2.err # <<>> THEN st2
                 ELSE [st2 EXCEPT !.marked = @ \cup {node},
                                  !.sorted = @ \o <<node>>]

\* visit that looks into temp before it looks into marked
TopoVisit_TempFirst(succ, node, st) ==
    LET st1 == [st EXCEPT !.unmarked = @ \ {node}]
    IN  IF node \in st1.temp THEN [st1 EXCEPT !.err = <<node>>]
        ELSE IF node \in st1.marked THEN st1
        ELSE LET st2 == TopoVisitSuccessors(succ, succ[node], 1,
                                            [st1 EXCEPT !.temp = @ \cup {node}])
             IN  IF st2.err # <<>> THEN st2
                 ELSE [st2 EXCEPT !.marked = @ \cup {node},
                                  !.sorted = <<node>> \o @]

\* visit
TopoVisit(succ, node, st) ==
    LET st1 == [st EXCEPT !.unmarked = @ \ {node}]
    IN  IF node \in st1.marked THEN st1
        ELSE IF node \in st1.temp THEN [st1 EXCEPT !.err = <<node>>]
        ELSE LET st2 == TopoVisitSuccessors(succ, succ[node], 1,
                                            [st1 EXCEPT !.temp = @ \cup {node}])
             IN  IF st2.err # <<>> THEN st2
                 ELSE [st2 EXCEPT !.marked = @ \cup {node},
                                  !.sorted = <<node>> \o @]

\* for n in successors(node) { visit(&n, ..)?; }
TopoVisitSuccessors(succ, ns, i, st) ==
    IF i > Len(ns) THEN st
    ELSE LET r == TopoVisit(succ, ns[i], st)
         IN  IF r.err # <<>> THEN r
             ELSE TopoVisitSuccessors(succ, ns, i + 1, r)

\* topological_sort is called with a set of roots and a successors function
TopoInit ==
    /\ GraphIdle
    /\ MainIdle
    /\ SubcktIdle
    /\ SpiceIdle
    /\ ReportIdle
    /\ \E edges \in EdgeLists : successors = SuccessorsOf(edges)
    /\ given_roots \in SUBSET TopoNodes
    /\ roots = given_roots
    /\ marked = {}
    /\ temp = {}
    /\ sorted = <<>>
    /\ topo_result = <<>>

\* one turn of the while loop: a root is taken, temp is cleared and the root
\* is visited; an Err leaves topological_sort through the ? operator
TakeRoot ==
    /\ topo_result = <<>>
    /\ \E node \in roots :
          LET r == TopoVisit(successors, node,
                             [unmarked |-> roots, marked |-> marked, temp |-> {},
                              sorted |-> sorted, err |-> <<>>])
          IN  /\ roots' = r.unmarked
              /\ marked' = r.marked
              /\ temp' = r.temp
              /\ sorted' = r.sorted
              /\ topo_result' = IF r.err # <<>>
                                THEN [ok |-> FALSE, val |-> r.err[1]]
                                ELSE topo_result
    /\ UNCHANGED <<mainVars, subcktVars, spiceVars, reportVars, successors, given_roots>>
    /\ UNCHANGED <<graph, reverse_graph, instance_celltype, instance_ins,
                   instance_outs, instance_fanout, regs_d, regs_q, inputs,
                   outputs, max_delay, max_delay_backwards, output, path,
                   consumed, nitems, phase, error>>

\* roots is empty: the loop ends and Ok(sorted) is returned
ReturnSorted ==
    /\ topo_result = <<>>
    /\ roots = {}
    /\ topo_result' = [ok |-> TRUE, val |-> sorted]
    /\ UNCHANGED <<mainVars, subcktVars, spiceVars, reportVars, successors,
                   given_roots, roots, marked, temp, sorted>>
    /\ UNCHANGED <<graph, reverse_graph, instance_celltype, instance_ins,
                   instance_outs, instance_fanout, regs_d, regs_q, inputs,
                   outputs, max_delay, max_delay_backwards, output, path,
                   consumed, nitems, phase, error>>

TopoNext == TakeRoot \/ ReturnSorted

SpecTopo == TopoInit /\ [][TopoNext]_vars

(***************************************************************************)
(* Vocabulary of the properties                                            *)
(***************************************************************************)
\* the edges of an adjacency map, as <<source, destination, delay>>
EdgeSet(map) ==
    UNION { { <<u, map[u][i].dst, map[u][i].delay>> : i \in 1..Len(map[u]) }
            : u \in DOMAIN map }

\* the nodes an adjacency map mentions as a source or a destination
Mentioned(map) == {e[1] : e \in EdgeSet(map)} \cup {e[2] : e \in EdgeSet(map)}

AllNodes == DOMAIN graph \cup DOMAIN reverse_graph \cup SetOf(inputs) \cup SetOf(outputs)

\* the nodes reachable from S along the edges E (S included)
RECURSIVE Reach(_, _)
Reach(S, E) ==
    LET T == S \cup {e[2] : e \in {f \in E : f[1] \in S}}
    IN  IF T = S THEN S ELSE Reach(T, E)

Flip(E) == {<<e[2], e[1], e[3]>> : e \in E}

\* the nodes that lie on a directed cycle of E
OnCycle(E) == {n \in {e[1] : e \in E} : n \in Reach({e[2] : e \in {f \in E : f[1] = n}}, E)}

Acyclic(E) == OnCycle(E) = {}

\* the nodes that lie on a cycle of E which avoids the nodes of S
OnCycleAvoiding(E, S) == OnCycle({e \in E : e[1] \notin S /\ e[2] \notin S})

\* every <<end, sum, clean>> such that some path of at most k edges of E from
\* a node of S ends at end with delays summing to sum; clean says that the
\* path meets no node of S after its first node
RECURSIVE PathSums(_, _, _)
PathSums(S, E, k) ==
    IF k = 0 THEN {<<s, 0, TRUE>> : s \in S}
    ELSE LET P == PathSums(S, E, k - 1)
         IN  P \cup UNION { { <<e[2], p[2] + e[3], p[3] /\ e[2] \notin S>>
                               : e \in {f \in E : f[1] = p[1]} } : p \in P }

\* the largest element of a non-empty set of numbers
Maximum(S) == CHOOSE x \in S : \A y \in S : y <= x

\* analyze has returned its two maps
Analyzed ==
    \/ phase \in {"analyzed", "extracted", "reported"}
    \/ phase = "crashed" /\ error \in {"OutOfMemory", "IndexPanic"}

\* SDFGraph::new has returned a graph
Built == phase \in {"built", "analyzed", "extracted", "reported", "crashed"}

\* a delay pass computed this map from these seeds and predecessor edges E
\* (E as <<predecessor, node, delay>>)
PassResultOK(md, seeds, E) ==
    /\ \A s \in seeds : s \in DOMAIN md /\ md[s] = 0
    /\ \A v \in DOMAIN md \ seeds :
          LET cands == { md[e[1]] + e[3] : e \in {f \in E : f[2] = v /\ f[1] \in DOMAIN md} }
          IN  cands # {} /\ md[v] = Maximum(cands)

\* C1: on an acyclic graph each delay pass gives every seed 0 and every other
\* kept node the maximum of (predecessor value + edge delay) over the
\* predecessor edges whose far end has a value; the forward pass takes its
\* predecessors from the reverse map, the backward pass from the forward map
C1_DelayPassIsMax ==
    (Analyzed /\ Acyclic(EdgeSet(graph))) =>
        /\ PassResultOK(max_delay, SetOf(inputs), Flip(EdgeSet(reverse_graph)))
        /\ PassResultOK(max_delay_backwards, SetOf(outputs), Flip(EdgeSet(graph)))

\* a kept node with two valued predecessors of different candidate values and
\* one predecessor without a value, on an acyclic analysed graph
C1_Witness ==
    /\ Analyzed /\ Acyclic(EdgeSet(graph))
    /\ \E v \in DOMAIN max_delay \ SetOf(inputs) :
          LET E == {f \in Flip(EdgeSet(reverse_graph)) : f[2] = v}
          IN  /\ \E e \in E : e[1] \notin DOMAIN max_delay
              /\ \E e1, e2 \in E :
                    /\ e1[1] \in DOMAIN max_delay /\ e2[1] \in DOMAIN max_delay
                    /\ max_delay[e1[1]] + e1[3] < max_delay[e2[1]] + e2[3]

\* paths of the forward graph that start at an Inputs node, with their sums
InputPathSums == PathSums(SetOf(inputs), EdgeSet(graph), Cardinality(AllNodes))

\* C2 as stated: the delays of every directed path of the forward graph from
\* an Inputs node to a node v of max_delay sum to at most max_delay[v]
C2_ArrivalBoundsEveryPath ==
    Analyzed => \A p \in InputPathSums :
                   p[1] \in DOMAIN max_delay => p[2] <= max_delay[p[1]]

\* C2 amended: the delays of every directed path of the forward graph from an
\* Inputs node to a node v of max_delay that meets no Inputs node after its
\* first node sum to at most max_delay[v]
C2_ArrivalBoundsSeedFreePaths ==
    Analyzed => \A p \in InputPathSums :
                   (p[3] /\ p[1] \in DOMAIN max_delay) => p[2] <= max_delay[p[1]]

\* two seed-free paths of different sums end at one node, and the larger sum
\* is positive and is the node's arrival
C2_Witness ==
    /\ Analyzed
    /\ \E p, q \in InputPathSums :
          /\ p[1] = q[1] /\ p[3] /\ q[3] /\ p[1] \in DOMAIN max_delay
          /\ q[2] < p[2] /\ p[2] = max_delay[p[1]]

\* C3: every node of max_delay is the end of a sequence of forward edges that
\* starts at an Inputs node and whose delays sum exactly to its arrival
C3_ArrivalIsAPathSum ==
    Analyzed => LET sums == InputPathSums
                IN  \A v \in DOMAIN max_delay :
                       \E p \in sums : p[1] = v /\ p[2] = max_delay[v]

\* a node that is no Inputs node has a positive arrival
C3_Witness ==
    /\ Analyzed
    /\ \E v \in DOMAIN max_delay : v \notin SetOf(inputs) /\ max_delay[v] >= 2

\* C4: after analysis of an acyclic graph max_delay holds exactly the nodes
\* reachable from an Inputs node and max_delay_backwards exactly the nodes
\* from which an Outputs node is reachable
C4_KeySetsAreReachableSets ==
    (Analyzed /\ Acyclic(EdgeSet(graph))) =>
        /\ DOMAIN max_delay = Reach(SetOf(inputs), EdgeSet(graph))
        /\ DOMAIN max_delay_backwards = Reach(SetOf(outputs), Flip(EdgeSet(graph)))

\* an acyclic analysed graph in which a node is missing from max_delay, and
\* nodes that are no seeds are present in each map
C4_Witness ==
    /\ Analyzed /\ Acyclic(EdgeSet(graph))
    /\ DOMAIN graph \ DOMAIN max_delay # {}
    /\ DOMAIN max_delay \ SetOf(inputs) # {}
    /\ DOMAIN max_delay_backwards \ SetOf(outputs) # {}

\* a cycle of the forward graph avoids the seeds of one of the passes
SeedlessCycle ==
    \/ OnCycleAvoiding(EdgeSet(graph), SetOf(inputs)) # {}
    \/ OnCycleAvoiding(EdgeSet(graph), SetOf(outputs)) # {}

\* C5: when the graph has a directed cycle on which no seed of a pass lies,
\* analyze stops with a CycleDetected failure
C5_CycleDetected ==
    (phase \in {"analyzed", "extracted", "crashed"} /\ SeedlessCycle) =>
        (phase = "crashed" /\ error = "CycleDetected")

\* the sums of the delays of forward edges that join the nodes of a list in
\* order, one edge per consecutive pair
RECURSIVE ChainSums(_, _)
ChainSums(nodes, E) ==
    IF Len(nodes) <= 1 THEN {0}
    ELSE LET n == Len(nodes)
             front == ChainSums(SubSeq(nodes, 1, n - 1), E)
         IN  { s + e[3] : s \in front,
                          e \in {f \in E : f[1] = nodes[n - 1] /\ f[2] = nodes[n]} }

\* extract_path was called on the endpoint in output and is over
ExtractOver ==
    \/ phase = "extracted"
    \/ phase = "crashed" /\ error \in {"OutOfMemory", "IndexPanic"}

\* the list is a path of forward edges that leads to out, carries the
\* arrivals of its nodes and sums to the arrival of out
PathLeadsTo(p, out) ==
    LET nodes == [i \in 1..Len(p) |-> p[i][1]] \o <<out>>
    IN  /\ \A i \in 1..Len(p) : p[i][1] # out
        /\ \A i \in 1..Len(p) :
              p[i][1] \in DOMAIN max_delay /\ p[i][2] = max_delay[p[i][1]]
        /\ \A i \in 1..Len(p) :
              \E e \in EdgeSet(graph) : e[1] = nodes[i] /\ e[2] = nodes[i + 1]
        /\ max_delay[out] \in ChainSums(nodes, EdgeSet(graph))

C7_Transpose == EdgeSet(reverse_graph) = Flip(EdgeSet(graph))

\* interconnect and IOPATH items were read, one of them polarity-inverting
C7_Witness ==
    /\ phase = "new" /\ nitems >= 2
    /\ \E it \in consumed : it.kind = "Interconnect"
    /\ \E e \in EdgeSet(graph) : e[1][2] # e[2][2] /\ e[3] = 2

\* C8: every node that is the source or the destination of an edge is a key
\* of the forward map and of the reverse map, so the key sets are equal
C8_SameKeys ==
    /\ DOMAIN graph = DOMAIN reverse_graph
    /\ Mentioned(graph) \cup Mentioned(reverse_graph) \subseteq DOMAIN graph
    /\ Mentioned(graph) \cup Mentioned(reverse_graph) \subseteq DOMAIN reverse_graph

\* after an interconnect and an IOPATH some key has no forward edge and some
\* key has no reverse edge
C8_Witness ==
    /\ \E it \in consumed : it.kind = "Interconnect"
    /\ \E it \in consumed : it.kind = "IOPath"
    /\ error = ""
    /\ \E n \in DOMAIN graph : graph[n] = <<>> /\ reverse_graph[n] # <<>>
    /\ \E n \in DOMAIN reverse_graph : reverse_graph[n] = <<>> /\ graph[n] # <<>>

\* the edges this step appended to the list of u in the forward map
AppendedTo(u) ==
    SubSeq(graph'[u], (IF u \in DOMAIN graph THEN Len(graph[u]) ELSE 0) + 1,
           Len(graph'[u]))

\* the forward edges this step added, as <<source, destination, delay>>
AddedEdges ==
    UNION { { <<u, AppendedTo(u)[i].dst, AppendedTo(u)[i].delay>>
              : i \in 1..Len(AppendedTo(u)) } : u \in DOMAIN graph' }

\* how many forward edges this step added
AddedCount ==
    Cardinality(UNION { { <<u, i>> : i \in 1..Len(AppendedTo(u)) } : u \in DOMAIN graph' })

\* the unateness of the source pin of an IOPATH item
UnateOf(it) == UnatenessData[celltype_short(it.celltype)][it.a_port]

\* the edges C9 names for an IOPATH a -> b with delays (rise_delay, fall_delay)
C9_Edges(unate, a, b, rise_delay, fall_delay) ==
    LET preserving == { <<<<a, Rise>>, <<b, Rise>>, rise_delay>>,
                        <<<<a, Fall>>, <<b, Fall>>, fall_delay>> }
        inverting  == { <<<<a, Rise>>, <<b, Fall>>, fall_delay>>,
                        <<<<a, Fall>>, <<b, Rise>>, rise_delay>> }
    IN  CASE unate = "Positive" -> preserving
          [] unate = "Negative" -> inverting
          [] unate = "Non"      -> preserving \cup inverting

\* C9: an IOPATH adds exactly the polarity-preserving pair for a
\* positive-unate pin, exactly the polarity-inverting pair for a
\* negative-unate pin and all four edges for a non-unate pin, each edge with
\* the delay of its destination transition
C9_IOPathEdgesByUnateness ==
    [][\A it \in GoodItems :
          (it.kind = "IOPath" /\ IOPath(it)) =>
              LET want == C9_Edges(UnateOf(it), Append(it.instance, it.a_port),
                                   Append(it.instance, it.b_port),
                                   it.delay[1], it.delay[Len(it.delay)])
              IN  AddedEdges = want /\ AddedCount = Cardinality(want)]_vars

\* IOPATHs of a positive-unate, a negative-unate and a non-unate pin were read
C9_Witness ==
    /\ error = ""
    /\ \A un \in {"Positive", "Negative", "Non"} :
          \E it \in consumed : it.kind = "IOPath" /\ UnateOf(it) = un

\* the clock net: the first of clk, clock that is a node
C10_ClockNet ==
    IF \E t \in Transition : <<<<"clk">>, t>> \in DOMAIN graph THEN {<<"clk">>}
    ELSE IF \E t \in Transition : <<<<"clock">>, t>> \in DOMAIN graph THEN {<<"clock">>}
    ELSE {}

\* the reset net: the first of rst, reset, resetn that is a node
C10_ResetNet ==
    IF \E t \in Transition : <<<<"rst">>, t>> \in DOMAIN graph THEN {<<"rst">>}
    ELSE IF \E t \in Transition : <<<<"reset">>, t>> \in DOMAIN graph THEN {<<"reset">>}
    ELSE IF \E t \in Transition : <<<<"resetn">>, t>> \in DOMAIN graph THEN {<<"resetn">>}
    ELSE {}

\* the instances that have an IOPATH from port CLK to port Q
C10_FlipFlops ==
    { it.instance : it \in { c \in consumed : c.kind = "IOPath" /\ c.a_port = "CLK"
                                                /\ c.b_port = "Q" } }

\* C10: Inputs is the nodes without reverse edges, minus the nodes of the
\* clock and reset nets, plus both transitions of Q of every flip-flop;
\* Outputs is the nodes without forward edges plus both transitions of D of
\* every flip-flop
C10_Endpoints ==
    Built =>
        /\ SetOf(inputs) =
              ({ n \in DOMAIN reverse_graph : reverse_graph[n] = <<>> }
                 \ { n \in DOMAIN reverse_graph : n[1] \in C10_ClockNet \cup C10_ResetNet })
              \cup { <<Append(i, "Q"), t>> : i \in C10_FlipFlops, t \in Transition }
        /\ SetOf(outputs) =
              { n \in DOMAIN graph : graph[n] = <<>> }
              \cup { <<Append(i, "D"), t>> : i \in C10_FlipFlops, t \in Transition }

\* a built graph with the nets clk and clock and a flip-flop: clock stays an
\* Inputs node, clk does not
C10_Witness ==
    /\ Built
    /\ C10_FlipFlops # {}
    /\ <<<<"clk">>, Rise>> \in DOMAIN graph
    /\ <<<<"clock">>, Rise>> \in SetOf(inputs)

\* a built graph with neither a clock net nor a reset net
C10_WitnessNoClock ==
    Built /\ C10_ClockNet = {} /\ C10_ResetNet = {} /\ inputs # <<>>

\* the Q and D nodes of the detected flip-flops
RegisterQ == { <<Append(i, "Q"), t>> : i \in C10_FlipFlops, t \in Transition }
RegisterD == { <<Append(i, "D"), t>> : i \in C10_FlipFlops, t \in Transition }

\* C11 as stated: no node is in both the Inputs list and the Outputs list
C11_Disjoint == Built => SetOf(inputs) \cap SetOf(outputs) = {}

\* C11 amended: a node is in both lists only if it is a register Q node
\* without a forward edge or a register D node without a reverse edge
C11_DisjointButDanglingRegisterPins ==
    Built => \A n \in SetOf(inputs) \cap SetOf(outputs) :
                \/ n \in RegisterQ /\ graph[n] = <<>>
                \/ n \in RegisterD /\ n \in DOMAIN reverse_graph /\ reverse_graph[n] = <<>>

\* a built graph with a flip-flop whose Q drives a net, primary inputs and
\* primary outputs: the two lists share no node
C11_Witness ==
    /\ Built
    /\ \E n \in RegisterQ : n \in SetOf(inputs) /\ graph[n] # <<>>
    /\ SetOf(inputs) \ RegisterQ # {}
    /\ SetOf(outputs) \ RegisterD # {}
    /\ SetOf(inputs) \cap SetOf(outputs) = {}

\* the list is in strictly ascending (pin, transition) order
Ascending(v) == \A i \in 1..(Len(v) - 1) : NodeLess(v[i], v[i + 1])

SortedThenRegs(v, regs) ==
    /\ Len(v) >= Len(regs)
    /\ SubSeq(v, Len(v) - Len(regs) + 1, Len(v)) = regs
    /\ Ascending(SubSeq(v, 1, Len(v) - Len(regs)))

RegisterCLK == { <<Append(i, "CLK"), t>> : i \in C10_FlipFlops, t \in Transition }

\* the edge list with every delay raised by k
Slower(edges, k) == [i \in 1..Len(edges) |-> [edges[i] EXCEPT !.delay = @ + k]]

\* the reverse map with the arcs that end at a node of S slowed down by k
WithSlowerArcsInto(rg, S, k) ==
    [n \in DOMAIN rg |-> IF n \in S THEN Slower(rg[n], k) ELSE rg[n]]

\* the forward pass on the graph whose CLK -> Q arcs are slower by 3 and
\* whose arcs into the CLK pins are slower by 5 (a later CLK arrival)
PassWithOtherClocking ==
    delay_pass(inputs, Keys(graph),
               WithSlowerArcsInto(WithSlowerArcsInto(reverse_graph, RegisterQ, 3),
                                  RegisterCLK, 5))

\* the forward paths that start at a Q node, with their sums
QPathSums == PathSums(RegisterQ, EdgeSet(graph), Cardinality(AllNodes))

\* the delay sums of the paths of P that end at v and meet no Q node on the
\* way
SumsTo(P, v) == { p[2] : p \in { q \in P : q[1] = v /\ q[3] } }

\* the nodes downstream of a Q node
DownstreamOfQ == Reach(RegisterQ, EdgeSet(graph)) \ RegisterQ

\* the nodes that only Q nodes launch: no other Inputs node reaches them
\* by a path that meets no Q node
LaunchedByQOnly ==
    DownstreamOfQ \ Reach(SetOf(inputs) \ RegisterQ,
                          {e \in EdgeSet(graph) : e[2] \notin RegisterQ})

Reported == phase = "reported"

\* C14: the endpoints are ranked by descending arrival and the endpoint
\* selected for path extraction and reporting has the largest arrival
C14_LargestReported ==
    Reported =>
        /\ \A i \in 1..(Len(outputs_with_delay) - 1) :
              outputs_with_delay[i][2] >= outputs_with_delay[i + 1][2]
        /\ outputs_with_delay # <<>> =>
              /\ reported # <<>>
              /\ \A i \in 1..Len(outputs_with_delay) :
                    outputs_with_delay[i][2] <= reported[1][2]

\* the items C15 names: an IOPATH with a condition guard, with an edge
\* qualifier on its source port, or with a cell type or source pin the
\* unateness table lacks; any item whose delay list has not 1 or 2 values
C15_Offending(it) ==
    \/ /\ it.kind = "IOPath"
       /\ \/ it.cond # "None"
          \/ it.edge_type # "None"
          \/ celltype_short(it.celltype) \notin DOMAIN UnatenessData
          \/ it.a_port \notin DOMAIN UnatenessData[celltype_short(it.celltype)]
    \/ Len(it.delay) \notin {1, 2}

\* C15: once SDFGraph::new has read an IOPATH with a condition guard, with
\* an edge qualifier, or without unateness data, or an item whose delay list
\* has not 1 or 2 values, it has aborted: no graph, no endpoint list and no
\* analysis exists, whatever the items read before built
C15_AbortsOnUnsupported ==
    (\E it \in consumed : C15_Offending(it)) =>
        /\ phase = "panicked" /\ error # ""
        /\ ~Built
        /\ inputs = <<>> /\ outputs = <<>>
        /\ max_delay = <<>> /\ max_delay_backwards = <<>>

\* the builder aborted on its third item, after two items added edges
C15_Witness ==
    /\ phase = "panicked"
    /\ nitems = 3
    /\ Cardinality({it \in consumed : ~C15_Offending(it)}) = 2
    /\ graph # <<>>

\* the SDF was a single interconnect of delay 0 whose source pin is in Inputs
\* and whose sink pin is in Outputs
C16_SingleZeroInterconnect ==
    /\ nitems = 1
    /\ \E it \in consumed :
          /\ it.kind = "Interconnect" /\ it.delay = <<0>>
          /\ \A t \in Transition :
                <<it.a, t>> \in SetOf(inputs) /\ <<it.b, t>> \in SetOf(outputs)

\* arrival and required are 0 at every node of the two pins
C16_AllZero ==
    \A n \in DOMAIN graph :
       /\ n \in DOMAIN max_delay /\ max_delay[n] = 0
       /\ n \in DOMAIN max_delay_backwards /\ max_delay_backwards[n] = 0

\* C16 as stated: for a graph built from a single interconnect of delay 0
\* from an Input pin to an Output pin, arrival and required are 0 at the
\* nodes of both pins and extract_path on the Output node returns the empty
\* list
C16_EmptyPath ==
    C16_SingleZeroInterconnect =>
        /\ Analyzed => C16_AllZero
        /\ ExtractOver => (phase = "extracted" /\ path = <<>>)

\* C16 amended: arrival and required are 0 at the nodes of both pins and
\* extract_path on the Output node returns the list of one entry, the Input
\* node of the same transition with arrival 0
C16_PathIsTheInputNode ==
    C16_SingleZeroInterconnect =>
        /\ Analyzed => C16_AllZero
        /\ ExtractOver =>
              /\ phase = "extracted"
              /\ Len(path) = 1
              /\ path[1][1] \in SetOf(inputs)
              /\ path[1][1][2] = output[2]
              /\ path[1][2] = 0

\* extract_path has returned for the graph of a single zero-delay
\* interconnect
C16_Witness == C16_SingleZeroInterconnect /\ phase = "extracted"

\* the fanout set of an instance, empty if the instance has none
FanoutOf(map, i) == IF i \in DOMAIN map THEN map[i] ELSE {}

\* C19: an interconnect a -> b adds exactly the two forward edges
\* (a,rise) -> (b,rise) with the rise delay and (a,fall) -> (b,fall) with the
\* fall delay, a single delay value serving both, and no polarity-changing
\* edge; b joins the fanout set of the instance that is the prefix of a
\* before its last '/', and no other fanout set changes
C19_InterconnectEdges ==
    [][\A it \in GoodItems :
          (it.kind = "Interconnect" /\ Interconnect(it)) =>
              LET rise_delay == it.delay[1]
                  fall_delay == it.delay[Len(it.delay)]
                  want == { <<<<it.a, Rise>>, <<it.b, Rise>>, rise_delay>>,
                            <<<<it.a, Fall>>, <<it.b, Fall>>, fall_delay>> }
              IN  /\ AddedEdges = want
                  /\ AddedCount = 2
                  /\ \A e \in AddedEdges : e[1][2] = e[2][2]
                  /\ \A i \in DOMAIN instance_fanout' \cup DOMAIN instance_fanout :
                        FanoutOf(instance_fanout', i) =
                           IF Len(it.a) >= 2 /\ i = SubSeq(it.a, 1, Len(it.a) - 1)
                           THEN FanoutOf(instance_fanout, i) \cup {it.b}
                           ELSE FanoutOf(instance_fanout, i)
                  /\ Len(it.a) >= 2 =>
                        SubSeq(it.a, 1, Len(it.a) - 1) \in DOMAIN instance_fanout']_vars

\* interconnects with two delay values and with a single one were read, one
\* of them leaving the pin of an instance
C19_Witness ==
    /\ error = ""
    /\ \E it \in consumed : it.kind = "Interconnect" /\ it.delay = <<1, 2>>
    /\ \E it \in consumed : it.kind = "Interconnect" /\ Len(it.delay) = 1
    /\ \E i \in DOMAIN instance_fanout : instance_fanout[i] # {}

\* a reverse edge of the node is tight under the arrival map
HasTightReverseEdge(n) ==
    /\ n \in DOMAIN reverse_graph /\ n \in DOMAIN max_delay
    /\ \E i \in 1..Len(reverse_graph[n]) :
          LET edge == reverse_graph[n][i]
          IN  /\ edge.dst \in DOMAIN max_delay
              /\ max_delay[edge.dst] + edge.delay = max_delay[n]

\* C20: every Inputs node has arrival 0 and no reverse edge that is tight
\* under the arrival map; a non-empty extracted path starts at an Inputs
\* node with arrival 0 and holds no Inputs node after it, since extraction
\* stops at the first Inputs node it reaches
C20_InputsEndThePath ==
    /\ Analyzed =>
          \A n \in SetOf(inputs) :
             /\ n \in DOMAIN max_delay /\ max_delay[n] = 0
             /\ ~HasTightReverseEdge(n)
    /\ (phase = "extracted" /\ path # <<>>) =>
          /\ path[1][1] \in SetOf(inputs) /\ path[1][2] = 0
          /\ \A i \in 2..Len(path) : path[i][1] \notin SetOf(inputs)

\* the distance between two widths
Distance(x, y) == IF x >= y THEN x - y ELSE y - x

\* the bin table of the function that returned fet_size
BinsUsed == IF fet_size[1] = "pfet" THEN BINS_PFET ELSE BINS_NFET

\* C18: pfet_size and nfet_size return (bin, m) where bin is the entry of
\* the respective bin table nearest to w (no entry is closer) and
\* m = w / bin
C18_NearestBin ==
    fet_size # <<>> =>
        LET bin == fet_size[2][1]
            m   == fet_size[2][2]
        IN  /\ \E i \in 1..Len(BinsUsed) : BinsUsed[i] = bin
            /\ \A i \in 1..Len(BinsUsed) : Distance(w, bin) <= Distance(w, BinsUsed[i])
            /\ m = (1000 * w) \div bin

\* the IO pins of the .subckt line and the body lines of the text
C17_Pins == SetOf(SubSeq(contents[1], 3, Len(contents[1])))
C17_Body == SubSeq(contents, 2, Len(contents) - 1)

\* the supply nets, which are global
C17_Supplies == {"vdd", "VGND", "VPWR", "VNB", "VPB"}

\* the internal nodes: the nodes a body line connects (its words 2 to 4)
\* that are neither IO pins nor supply nets
C17_InternalNodes ==
    UNION { {C17_Body[i][k] : k \in 2..4} : i \in 1..Len(C17_Body) }
       \ (C17_Pins \cup C17_Supplies)

\* C17: instanciate writes the body with, on every line, the first word
\* followed by _<instance>, every IO pin replaced by its bound value and
\* every internal node replaced by <instance>_<node>, so that no internal
\* node name is shared with an instantiation under another instance name;
\* it aborts when an IO pin has no bound value
C17_Instanciate ==
    /\ phase = "panicked" => \E pin \in C17_Pins : pin \notin DOMAIN values
    /\ phase = "instanciated" =>
          /\ C17_Pins \subseteq DOMAIN values
          /\ Len(spice_append) = Len(C17_Body)
          /\ \A i \in 1..Len(C17_Body) :
                /\ Len(spice_append[i]) = Len(C17_Body[i])
                /\ spice_append[i][1] = C17_Body[i][1] \o "_" \o subckt_instance
                /\ \A j \in 2..Len(C17_Body[i]) :
                      LET word == C17_Body[i][j]
                      IN  /\ word \in C17_Pins => spice_append[i][j] = values[word]
                          /\ (j <= 4 /\ word \in C17_InternalNodes) =>
                                /\ spice_append[i][j] = subckt_instance \o "_" \o word
                                /\ \A other \in InstanceNames \ {subckt_instance} :
                                      \A node \in C17_InternalNodes :
                                         spice_append[i][j] # other \o "_" \o node

\* the positions, in the reverse edge list of a node, of the edges that are
\* tight under the arrival map
TightEdges(n) ==
    { i \in 1..Len(reverse_graph[n]) :
         LET edge == reverse_graph[n][i]
         IN  /\ edge.dst \in DOMAIN max_delay
             /\ max_delay[edge.dst] + edge.delay = max_delay[n] }

\* the nodes the back-trace stood on, from the start of the path to the
\* endpoint
TraceNodes == [i \in 1..Len(path) |-> path[i][1]] \o <<output>>

\* C21: at each back-trace step of extract_path the predecessor chosen is
\* the far end of the last tight edge in the order of the reverse edge list
\* of the current node (it is pushed with its arrival), reverse edges whose
\* far end has no arrival are passed over, and the back-trace ends at the
\* node that has no tight reverse edge
C21_LastTightEdgeChosen ==
    phase = "extracted" =>
        /\ \A i \in 1..Len(path) :
              LET cur   == TraceNodes[i + 1]
                  tight == TightEdges(cur)
              IN  /\ tight # {}
                  /\ path[i] = << reverse_graph[cur][Maximum(tight)].dst,
                                  max_delay[reverse_graph[cur][Maximum(tight)].dst] >>
        /\ TightEdges(TraceNodes[1]) = {}

\* a path was extracted through a node with two tight reverse edges from
\* different predecessors and through a node with a reverse edge from a node
\* without arrival
C21_Witness ==
    /\ phase = "extracted"
    /\ \E i \in 1..Len(path) :
          \E j, k \in TightEdges(TraceNodes[i + 1]) :
             reverse_graph[TraceNodes[i + 1]][j].dst # reverse_graph[TraceNodes[i + 1]][k].dst
    /\ \E i \in 1..Len(path) :
          \E j \in 1..Len(reverse_graph[TraceNodes[i + 1]]) :
             reverse_graph[TraceNodes[i + 1]][j].dst \notin DOMAIN max_delay

\* SDFGraph::new and analyze on the delay items read so far, each taken once
\* and in the fixed order: the order the SDF listed them in plays no part
Reordered ==
    LET g   == ReadItems(EmptyGraph, InFixedOrder(consumed))
        ins == Retain(sort_unstable(EmptyKeys(g.reverse_graph, Keys(g.reverse_graph))),
                      DetectClk(g.graph), DetectRst(g.graph)) \o g.regs_q
        outs == sort_unstable(EmptyKeys(g.graph, Keys(g.graph))) \o g.regs_d
    IN  [graph |-> g.graph, reverse_graph |-> g.reverse_graph,
         inputs |-> ins, outputs |-> outs,
         fw |-> delay_pass(ins, Keys(g.graph), g.reverse_graph),
         bw |-> delay_pass(outs, Keys(g.reverse_graph), g.graph)]

\* C22: the order of the cells and of the delay items in the SDF, and with
\* it the order of the edges in every edge list, has no effect on the key
\* sets and the values of max_delay and max_delay_backwards: reading the
\* same delay items in another order gives the same two maps.  The maps are
\* compared in the state analyze leaves; no later step writes them.
C22_OrderOfItemsIsImmaterial ==
    (phase = "analyzed") =>
        LET o == Reordered
        IN  /\ o.fw.err = "" /\ o.bw.err = ""
            /\ o.fw.md = max_delay
            /\ o.bw.md = max_delay_backwards
            /\ DOMAIN o.graph = DOMAIN graph
            /\ DOMAIN o.reverse_graph = DOMAIN reverse_graph

\* the analysed graph has an edge list in another order than the reordered
\* reading gives it, some node has a positive arrival, and extract_path
\* returns for some endpoint another path than it does on the reordered graph
C22_Witness ==
    /\ phase = "analyzed"
    /\ \E n \in DOMAIN max_delay : max_delay[n] > 0
    /\ LET o == Reordered
       IN  /\ \E n \in DOMAIN reverse_graph : o.reverse_graph[n] # reverse_graph[n]
           /\ \E out \in SetOf(outputs) :
                 extract_path(o.reverse_graph, max_delay, out).path
                     # extract_path(reverse_graph, max_delay, out).path

\* a reporter ran to its end
ReportWritten == phase \in {"html", "spice"}

\* the traversals a reporter built, as <<instance, entering pin, leaving pin>>
Traversals ==
    [i \in 1..Len(instances) |->
        <<instances[i][1], instances[i][Len(instances[i]) - 1],
          instances[i][Len(instances[i])]>>]

\* the nodes of the extracted path
PathNodes == [i \in 1..Len(path) |-> path[i][1]]

\* the maximal runs of consecutive nodes of one instance in a list of nodes,
\* each as <<instance, first node, last node>>, in the order of the list
RunsOf(ns) ==
    LET starts == { i \in 1..Len(ns) :
                       i = 1 \/ instance_name(ns[i][1]) # instance_name(ns[i - 1][1]) }
        ends   == { i \in 1..Len(ns) :
                       i = Len(ns) \/ instance_name(ns[i][1]) # instance_name(ns[i + 1][1]) }
        nth(S, k) == CHOOSE i \in S : Cardinality({ j \in S : j < i }) = k - 1
    IN  [k \in 1..Cardinality(starts) |->
            <<instance_name(ns[nth(starts, k)][1]), ns[nth(starts, k)], ns[nth(ends, k)]>>]

\* C23 as claimed: the traversals are the maximal runs of one instance in
\* the path followed by the endpoint, so that no two consecutive traversals
\* belong to the same instance and each traversal enters at the first and
\* leaves at the last entry of its run
C23_RunsOfPathAndEndpoint ==
    ReportWritten =>
        /\ Traversals = RunsOf(Append(PathNodes, output))
        /\ \A i \in 1..(Len(instances) - 1) : instances[i][1] # instances[i + 1][1]

\* C23: compaction turns the extracted path into the list of the maximal
\* runs of consecutive path entries of one instance, each entering at the
\* first and leaving at the last entry of the run, and appends the endpoint
\* as a traversal of its own; no two consecutive traversals of the path
\* belong to the same instance, the endpoint's may repeat the last one's
C23_RunsOfPathThenEndpoint ==
    ReportWritten =>
        /\ Traversals = Append(RunsOf(PathNodes),
                               <<instance_name(output[1]), output, output>>)
        /\ \A i \in 1..(Len(instances) - 2) : instances[i][1] # instances[i + 1][1]
        /\ \A i \in 1..Len(instances) :
              /\ instance_name(Traversals[i][2][1]) = instances[i][1]
              /\ instance_name(Traversals[i][3][1]) = instances[i][1]

\* the HTML reporter wrote its file for a path of three entries or more
\* that goes through a cell from an input pin to an output pin
C23_Witness ==
    /\ phase = "html"
    /\ Len(path) >= 3
    /\ \E i \in 1..Len(instances) : Traversals[i][2][1] # Traversals[i][3][1]

\* the table's list for the cell type and the entering pin of a traversal of
\* the SPICE reporter, <<>> if the table has none
CombinationsOf(inst) ==
    LET celltype == inst[2]
        pin      == pin_name_ref(inst[3][1])
    IN  IF celltype \in DOMAIN CELL_TRANSITION_COMBINATIONS
        THEN IF pin \in DOMAIN CELL_TRANSITION_COMBINATIONS[celltype]
             THEN CELL_TRANSITION_COMBINATIONS[celltype][pin]
             ELSE <<>>
        ELSE <<>>

\* positive exactly when the entering and the leaving transition are equal
PolarityOf(inst) == IF inst[3][2] = inst[4][2] THEN "Positive" ELSE "Negative"

\* the traversals of the SPICE reporter that got no side-input assignment
\* and are no flip-flop
WarnedFor ==
    { i \in 1..Len(pin_vals) :
         pin_vals[i] = <<>> /\ celltype_short(instances[i][2]) # "dfxtp" }

InBothMaps == DOMAIN max_delay \cap DOMAIN max_delay_backwards

\* the slack of the node is not negative against the worst endpoint arrival:
\* some Outputs node has an arrival as large as the node's arrival plus its
\* required time
SlackNotNegative(v) ==
    \E o \in SetOf(outputs) \cap DOMAIN max_delay :
       max_delay[v] + max_delay_backwards[v] <= max_delay[o]

\* C25 as claimed: after analysis every node present in both maps has
\* max_delay + max_delay_backwards no larger than the largest max_delay of
\* an Outputs node
C25_NoNegativeSlack == Analyzed => \A v \in InBothMaps : SlackNotNegative(v)

\* the nodes from which an Inputs node is reached along one forward edge or
\* more: the forward pass starts again from 0 behind them
UpstreamOfASeed ==
    LET E == EdgeSet(graph)
    IN  { v \in DOMAIN graph :
             Reach({ e[2] : e \in { f \in E : f[1] = v } }, E) \cap SetOf(inputs) # {} }

\* C25: after analysis every node present in both maps from which no Inputs
\* node is reached along forward edges has max_delay + max_delay_backwards
\* no larger than the largest max_delay of an Outputs node
C25_NoNegativeSlackBehindSeeds ==
    Analyzed => \A v \in InBothMaps \ UpstreamOfASeed : SlackNotNegative(v)

\* a node on a path of positive delay to an endpoint, with no Inputs node
\* behind it, has its two times adding up to the worst endpoint arrival
C25_Witness ==
    /\ Analyzed
    /\ \E v \in InBothMaps \ UpstreamOfASeed :
          /\ max_delay[v] > 0 /\ max_delay_backwards[v] > 0
          /\ \A o \in SetOf(outputs) \cap DOMAIN max_delay :
                max_delay[o] <= max_delay[v] + max_delay_backwards[v]

\* a list holds no element at two positions
OccursAtMostOnce(s) ==
    \A i, j \in 1..Len(s) : s[i] = s[j] => i = j

\* C26: in every graph SDFGraph::new has produced, each transition-pin occurs
\* at most once in the Inputs list and at most once in the Outputs list.
C26_EndpointsOccurOnce ==
    Built => OccursAtMostOnce(inputs) /\ OccursAtMostOnce(outputs)

\* the nodes reached from the nodes of S through succ, S included
RECURSIVE ReachableFrom(_, _)
ReachableFrom(succ, S) ==
    LET T == S \cup UNION {SetOf(succ[n]) : n \in S}
    IN  IF T = S THEN S ELSE ReachableFrom(succ, T)

\* n lies on a directed cycle
OnTopoCycle(succ, n) == n \in ReachableFrom(succ, SetOf(succ[n]))

\* a directed cycle is reachable from the roots topological_sort was given
CycleReachable ==
    \E n \in ReachableFrom(successors, given_roots) : OnTopoCycle(successors, n)

\* topological_sort has returned
TopoReturned == topo_result # <<>>

\* C27: topological_sort returns Err(n) if and only if a directed cycle is
\* reachable from the given roots through the successors function, and n is
\* then a node on such a cycle; an acyclic reachable subgraph, shared nodes
\* or not, never gives Err.
C27_ErrIffCycle ==
    TopoReturned =>
        /\ (~topo_result.ok) <=> CycleReachable
        /\ (~topo_result.ok) =>
              /\ topo_result.val \in ReachableFrom(successors, given_roots)
              /\ OnTopoCycle(successors, topo_result.val)

\* a node with two predecessors among the reachable nodes
SharedNode ==
    \E n \in TopoNodes : \E p, q \in ReachableFrom(successors, given_roots) :
        p # q /\ n \in SetOf(successors[p]) /\ n \in SetOf(successors[q])

\* an Err on a cycle behind a root, and an Ok on a graph with a shared node
\* and two roots, are both returned
C27_Witness ==
    /\ TopoReturned
    /\ ~topo_result.ok
    /\ topo_result.val \notin given_roots
    /\ Cardinality(given_roots) = 1

C27_WitnessAcyclic ==
    /\ TopoReturned
    /\ topo_result.ok
    /\ SharedNode
    /\ Cardinality(given_roots) >= 2

\* topological_sort where each turn of the loop is eventually taken: the
\* program runs on until it returns
SpecTopoLive == TopoInit /\ [][TopoNext]_vars /\ WF_vars(TopoNext)

\* every node of the order stands before each of its successors
BeforeSuccessors(succ, order) ==
    \A i, j \in 1..Len(order) : order[j] \in SetOf(succ[order[i]]) => i < j

\* Ok(order) was returned, order holds every node reachable from the given
\* roots exactly once, and every node before its successors
OkTopologicalOrder ==
    /\ TopoReturned
    /\ topo_result.ok
    /\ SetOf(topo_result.val) = ReachableFrom(successors, given_roots)
    /\ OccursAtMostOnce(topo_result.val)
    /\ BeforeSuccessors(successors, topo_result.val)

\* C28: when no cycle is reachable from the roots, topological_sort
\* terminates with Ok(order), order holding every node reachable from the
\* roots exactly once and every node before each of its successors.
C28_TerminatesWithTopologicalOrder ==
    (~CycleReachable) ~> OkTopologicalOrder

\* an order of three nodes, one of them with two predecessors, was returned
C28_Witness ==
    /\ OkTopologicalOrder
    /\ SharedNode
    /\ Len(topo_result.val) = 3

\* the endpoints the ranking kept
RankedEndpoints == {outputs_with_delay[i][1] : i \in 1..Len(outputs_with_delay)}

\* extract_path was invoked on the node held in output
ExtractInvoked == output # <<>>

\* C29: the ranking keeps only endpoints with an entry in max_delay, so the
\* report loop never invokes extract_path on a node absent from the arrival
\* map; extract_path invoked on such a node aborts and returns no path.
C29_RankedEndpointsHaveArrivals ==
    /\ RankedEndpoints \subseteq DOMAIN max_delay
    /\ \A i \in 1..Len(reported) :
          /\ reported[i][1] \in DOMAIN max_delay
          /\ output = reported[i][1]
    /\ (ExtractInvoked /\ output \notin DOMAIN max_delay) =>
          /\ phase = "crashed"
          /\ error = "IndexPanic"
          /\ path = <<>>

\* extract_path was invoked on an endpoint without an arrival
C29_Witness ==
    /\ ExtractInvoked
    /\ output \notin DOMAIN max_delay
    /\ phase = "crashed"

\* the ranking dropped a register endpoint
C29_WitnessRanking ==
    /\ phase = "reported"
    /\ \E i \in 1..Len(regs_d) : regs_d[i] \notin DOMAIN max_delay

\* a reporter was called and has returned or aborted
ReporterCalled == phase \in {"html", "spice", "crashed"}

\* C30: both reporters need a non-empty extracted path: called on an endpoint
\* whose extracted path is empty they abort before they write path.html or
\* out.spice, so the call leaves no output file.
C30_EmptyPathWritesNoFile ==
    (ReporterCalled /\ path = <<>>) =>
        /\ phase = "crashed"
        /\ error # ""
        /\ files = {}

\* a reporter was called with an empty path and stopped at last_pin.unwrap()
C30_Witness ==
    /\ ReporterCalled
    /\ path = <<>>
    /\ error = "NoLastPin"

====
